---- MODULE Spec2Model ----
(***************************************************************************)
(* State-machine model of the ember renderer's frame orchestration:        *)
(* RenderManager::startup, ::draw, ::acquire_swapchain_image and           *)
(* ::recreate_swapchain (src/src/core/rendering/render_manager.rs), of     *)
(* the terrain systems and their pipeline cache                            *)
(* (src/src/core/systems/terrain_systems.rs) and of the geometry           *)
(* initializer (src/src/core/systems/geometry_init.rs,                     *)
(* src/src/core/rendering/geometries/cube.rs).                             *)
(*                                                                         *)
(* Spec and FairSpec are the frame orchestration on an empty scene,        *)
(* RecordSpec one draw call on a scene with entities and cameras,          *)
(* PipelineSpec and ToggleSpec the terrain systems, GeometrySpec the       *)
(* geometry initializer; each leaves the variables of the others at their  *)
(* initial values.                                                         *)
(*                                                                         *)
(* The Vulkan device, the presentation engine and the window are the       *)
(* environment: every call into them returns one of the results the        *)
(* vulkano API can return, chosen nondeterministically.  A Rust panic      *)
(* (unwrap on None / Err, panic!, index out of range) ends the process:    *)
(* pc = "panicked" and no further step.                                    *)
(***************************************************************************)
EXTENDS Integers, Sequences, FiniteSets, TLC

VARIABLES
    rm,             \* the RenderManager struct (self)
    window,         \* surface.window().inner_size(), owned by the OS
    pc,             \* position of the render thread inside draw
    ret,            \* where recreate_swapchain returns to
    image_num,      \* draw local: index of the acquired image
    suboptimal,     \* draw local: acquisition reported suboptimal
    acquire_future, \* draw local: Option of the image-acquired signal
    future,         \* draw local: result of then_signal_fence_and_flush
    next_swapchain, \* device: id of the next swapchain object it creates
    draws,          \* number of draw calls begun
    call,           \* history of the current draw call
    hist,           \* history across draw calls
    world,          \* the scene's specs World: entities and cameras
    scene_state,    \* the SceneState resource (pipeline cache)
    key_input,      \* the KeyInputQueue resource: keys pressed this frame
    modifiers,      \* the ModifiersState resource
    buffers,        \* the TriangleSecondaryBuffers resource
    terrains,       \* the entities with a TransformComponent and a TerrainComponent
    next_pipeline,  \* device: id of the next pipeline object it creates
    sys,            \* history of the terrain systems
    geometries,     \* the GeometryComponent storage
    cube,           \* Option of a CubeGeometry
    geo,            \* device buffer ids and history of the geometry initializer
    app,            \* the Application struct (self)
    app_hist,       \* history of the calls on the Application
    input_manager,  \* the InputManager struct (self)
    input_hist      \* history of the calls on the InputManager

render_vars == <<rm, window, ret, image_num, suboptimal, acquire_future,
                 future, next_swapchain, draws, call, hist, world>>

pipeline_vars == <<scene_state, key_input, modifiers, buffers, terrains,
                   next_pipeline, sys>>

geometry_vars == <<geometries, cube, geo>>

application_vars == <<app, app_hist>>

input_vars == <<input_manager, input_hist>>

vars == <<rm, window, pc, ret, image_num, suboptimal, acquire_future, future,
          next_swapchain, draws, call, hist, world, scene_state, key_input,
          modifiers, buffers, terrains, next_pipeline, sys, geometries, cube,
          geo, app, app_hist, input_manager, input_hist>>

----------------------------------------------------------------------------
(* Bounds of the model *)

MaxDraws == 3
MaxSwapchains == 3
MaxCount == 3
MaxPipelines == 4
MaxBuffers == 3
MaxTerrains == 2
MaxGeometries == 2
MaxRuns == 2
MaxInitializes == 2
MaxEntities == 2

(* Sizes the window takes; <<0, 0>> is the minimised window. *)
WindowSizes == {<<0, 0>>, <<800, 600>>, <<1024, 768>>}

(* Numbers of images a swapchain of this surface can come with. *)
ImageCounts == {2, 3}

----------------------------------------------------------------------------
(* Option<T> *)

None == <<>>
Some(v) == <<v>>
is_some(o) == o # <<>>
unwrap(o) == o[1]

(* `x as f32` for a u32: exact up to 2^24, beyond that rounded to the      *)
(* nearest value with a 24-bit significand (ties to even).                 *)
RECURSIVE AsF32Step(_, _)
AsF32Step(x, ulp) ==
    IF x \div ulp < 16777216
    THEN LET lo == (x \div ulp) * ulp
             rem == x - lo
         IN  IF 2 * rem < ulp THEN lo
             ELSE IF 2 * rem > ulp THEN lo + ulp
             ELSE IF (x \div ulp) % 2 = 0 THEN lo ELSE lo + ulp
    ELSE AsF32Step(x, 2 * ulp)

AsF32(x) == AsF32Step(x, 1)

----------------------------------------------------------------------------
(* GPU completion tokens (Box<dyn GpuFuture>) *)

(* sync::now(device): a future that is already signalled *)
now == [kind |-> "now", frame |-> 0]

(* the fence future returned by then_signal_fence_and_flush of draw n *)
FenceSignalFuture(n) == [kind |-> "fence", frame |-> n]

----------------------------------------------------------------------------
(* Swapchains, images, framebuffers *)

Swapchain(id, dimensions, num_images) ==
    [id |-> id, dimensions |-> dimensions, num_images |-> num_images]

(* the images created together with swapchain sc *)
SwapchainImages(sc) ==
    [i \in 1..sc.num_images |->
        [swapchain |-> sc.id, index |-> i - 1, dimensions |-> sc.dimensions]]

Viewport(dimensions) == [origin |-> <<0, 0>>, dimensions |-> dimensions]

(* Variant: every framebuffer wraps the view of images[0]. *)
window_size_dependent_setup_first_image(images, render_pass, viewport) ==
    LET dimensions == images[1].dimensions
    IN  [viewport |-> [viewport EXCEPT
                         !.dimensions = <<AsF32(dimensions[1]), AsF32(dimensions[2])>>],
         framebuffers |-> [i \in 1..Len(images) |->
                             [render_pass |-> render_pass, image |-> images[1]]]]

(* Returns the framebuffers and the value left in *viewport. *)
window_size_dependent_setup(images, render_pass, viewport) ==
    LET dimensions == images[1].dimensions
    IN  [viewport |-> [viewport EXCEPT
                         !.dimensions = <<AsF32(dimensions[1]), AsF32(dimensions[2])>>],
         framebuffers |-> [i \in 1..Len(images) |->
                             [render_pass |-> render_pass, image |-> images[i]]]]

----------------------------------------------------------------------------
(* RenderManager *)

create_new ==
    [device |-> None, queue |-> None, surface |-> None, swapchain |-> None,
     render_pass |-> None, pipeline |-> None, framebuffers |-> None,
     recreate_swapchain |-> FALSE, previous_frame_end |-> None,
     viewport |-> None]

(* History of one draw call: numbers of acquisitions, of recreation        *)
(* attempts and of recreation attempts made by acquire_swapchain_image     *)
(* (each counted up to MaxCount), result of the latest acquisition and of  *)
(* the latest recreation                                                   *)
(* attempt, the swapchain the image was acquired from, the token joined    *)
(* by the submission, the framebuffer rendered into, the swapchain         *)
(* presented to, how often previous_frame_end was taken and stored, and    *)
(* whether a swapchain was replaced after the acquisition, and the steps   *)
(* of the call in the order they were executed.                            *)
NoCall == [acquisitions |-> 0, recreations |-> 0, acquire_recreations |-> 0,
           last_acquire |-> "none", last_recreate |-> "none",
           acquired_from |-> 0, joined |-> None, target |-> None,
           presented_to |-> 0, taken |-> 0, stored |-> 0,
           replaced_after_acquire |-> FALSE, steps |-> <<>>]

(* History across calls: completion futures produced, draw calls whose     *)
(* submission succeeded, and the flush result of the latest finished call. *)
NoHist == [produced |-> 0, succeeded |-> 0, last_result |-> "none"]

----------------------------------------------------------------------------
(* Graphics pipelines and the per-draw-system pipeline cache *)

(* vulkano PrimitiveTopology values; the wireframe toggle handles the      *)
(* first two.                                                              *)
Topologies == {"TriangleList", "LineStrip", "PointList", "TriangleStrip"}

(* the draw-system types pipelines are registered for *)
SystemKeys == {"TerrainDrawSystemPipeline"}

(* the keys of the KeyInputQueue the model distinguishes *)
Keys == {"Z", "W"}

Subpass(render_pass, index) == [render_pass |-> render_pass, index |-> index]

(* Variant: the wireframe pipeline is built without back-face culling. *)
create_pipeline_no_culling(id, subpass, topology) ==
    [id |-> id,
     vertex_input |-> "Vertex",
     vertex_shader |-> "triangle::vs::main",
     fragment_shader |-> "triangle::fs::main",
     topology |-> topology,
     viewport_state |-> "viewport_dynamic_scissor_irrelevant",
     depth_stencil |-> "simple_depth_test",
     cull_mode |-> "None",
     front_face |-> "CounterClockwise",
     subpass |-> subpass]

(* TerrainAssemblyStateSystemPipeline::create_pipeline; id is the identity *)
(* of the pipeline object the device creates.                              *)
create_pipeline(id, subpass, topology) ==
    [id |-> id,
     vertex_input |-> "Vertex",
     vertex_shader |-> "triangle::vs::main",
     fragment_shader |-> "triangle::fs::main",
     topology |-> topology,
     viewport_state |-> "viewport_dynamic_scissor_irrelevant",
     depth_stencil |-> "simple_depth_test",
     cull_mode |-> "Back",
     front_face |-> "CounterClockwise",
     subpass |-> subpass]

(* Variant: the initial pipeline is built with a third topology. *)
create_graphics_pipeline_strip(id, render_pass) ==
    [id |-> id,
     vertex_input |-> "Vertex",
     vertex_shader |-> "triangle::vs::main",
     fragment_shader |-> "triangle::fs::main",
     topology |-> "TriangleStrip",
     viewport_state |-> "viewport_dynamic_scissor_irrelevant",
     depth_stencil |-> "simple_depth_test",
     cull_mode |-> "Back",
     front_face |-> "CounterClockwise",
     subpass |-> Subpass(render_pass, 0)]

(* TerrainDrawSystemPipeline::create_graphics_pipeline *)
create_graphics_pipeline(id, render_pass) ==
    [id |-> id,
     vertex_input |-> "Vertex",
     vertex_shader |-> "triangle::vs::main",
     fragment_shader |-> "triangle::fs::main",
     topology |-> "TriangleList",
     viewport_state |-> "viewport_dynamic_scissor_irrelevant",
     depth_stencil |-> "simple_depth_test",
     cull_mode |-> "Back",
     front_face |-> "CounterClockwise",
     subpass |-> Subpass(render_pass, 0)]

(* SceneState: the pipeline registered for each draw-system type, the      *)
(* render passes and the viewport.                                         *)
NewSceneState ==
    [pipelines |-> [S \in SystemKeys |-> None],
     render_passes |-> <<"render_pass">>,
     viewport |-> Viewport(<<800, 600>>)]

(* SceneState::get_pipeline_for_system::<S>(): None is "not found" *)
get_pipeline_for_system(state, S) == state.pipelines[S]

(* SceneState::set_pipeline_for_system::<S>(pipeline) *)
set_pipeline_for_system(state, S, pipeline) ==
    [state EXCEPT !.pipelines[S] = Some(pipeline)]

(* History of the terrain systems: tick flips at every run of a system,    *)
(* last_run names the system that ran last, published lists the pipelines  *)
(* passed to set_pipeline_for_system in order, bound is the pipeline the   *)
(* latest TerrainDrawSystem run bound, encoded the number of command       *)
(* buffers it pushed.                                                      *)
NoSys == [tick |-> 0, last_run |-> "none", published |-> <<>>,
          bound |-> None, encoded |-> 0, seen |-> None]

(* a world without entities and without cameras *)
NoWorld == [entities |-> <<>>, cameras |-> <<>>]

(* the render thread before startup, no draw call made *)
NoRender ==
    /\ rm = create_new
    /\ window = <<800, 600>>
    /\ ret = "idle"
    /\ image_num = 0
    /\ suboptimal = FALSE
    /\ acquire_future = None
    /\ future = None
    /\ next_swapchain = 1
    /\ draws = 0
    /\ call = NoCall
    /\ hist = NoHist
    /\ world = NoWorld

(* no pipeline registered, no key pressed, no terrain, no system run *)
NoSystems ==
    /\ scene_state = NewSceneState
    /\ key_input = {}
    /\ modifiers = [shift |-> FALSE, alt |-> FALSE]
    /\ buffers = <<>>
    /\ terrains = <<>>
    /\ next_pipeline = 1
    /\ sys = NoSys

(* no geometry in the world *)
NoGeo == [runs |-> 0, initializes |-> <<>>, next_buffer |-> 1,
          cube_initializes |-> 0]

NoGeometry ==
    /\ geometries = <<>>
    /\ cube = None
    /\ geo = NoGeo

(* Application::create_application, Application::get_instance *)
create_application == [systems |-> <<>>]

(* History of the Application: number of calls made on it, id of the next  *)
(* system object constructed, and the latest call: its name, its argument  *)
(* and the calls it made on systems, in order.                             *)
NoAppHist == [calls |-> 0, next_system |-> 1,
              last |-> [op |-> "none", arg |-> None, events |-> <<>>]]

(* a new application, no call made on it *)
NoApplication ==
    /\ app = create_application
    /\ app_hist = NoAppHist

(* InputManager::create_new *)
InputManager_create_new ==
    [modifier_state |-> None, current_key_pressed |-> None]

(* History of the InputManager: the number of updates (frames) made, the   *)
(* frame in which the stored key was received, a bit that flips at every   *)
(* call, and the latest call: its name, its argument and the key it        *)
(* logged.                                                                 *)
NoInputHist == [frame |-> 0, received |-> None, tick |-> 0,
                last |-> [op |-> "none", arg |-> None, logged |-> None]]

(* a new input manager, no call made on it *)
NoInput ==
    /\ input_manager = InputManager_create_new
    /\ input_hist = NoInputHist

Init ==
    /\ NoApplication
    /\ NoInput
    /\ rm = create_new
    /\ window \in WindowSizes \ {<<0, 0>>}
    /\ pc = "idle"
    /\ ret = "idle"
    /\ image_num = 0
    /\ suboptimal = FALSE
    /\ acquire_future = None
    /\ future = None
    /\ next_swapchain = 1
    /\ draws = 0
    /\ call = NoCall
    /\ hist = NoHist
    /\ world = NoWorld
    /\ NoSystems
    /\ NoGeometry

Inc(n) == IF n < MaxCount THEN n + 1 ELSE n

Panic ==
    /\ pc' = "panicked"
    /\ UNCHANGED <<window, ret, image_num, suboptimal, acquire_future, future,
                   next_swapchain, draws, call, hist, world>>

----------------------------------------------------------------------------
(* RenderManager::startup *)

(* Variant: the viewport is not stored. *)
startup_without_viewport(self, swapchain) ==
    LET setup == window_size_dependent_setup(SwapchainImages(swapchain),
                     "render_pass", Viewport(<<0, 0>>))
    IN  [self EXCEPT
            !.surface = Some("surface"),
            !.device = Some("device"),
            !.queue = Some("queue"),
            !.swapchain = Some(swapchain),
            !.render_pass = Some("render_pass"),
            !.pipeline = Some("pipeline"),
            !.framebuffers = Some(setup.framebuffers),
            !.previous_frame_end = Some(now),
            !.recreate_swapchain = FALSE]

startup(self, swapchain) ==
    LET setup == window_size_dependent_setup(SwapchainImages(swapchain),
                     "render_pass", Viewport(<<0, 0>>))
    IN  [self EXCEPT
            !.surface = Some("surface"),
            !.device = Some("device"),
            !.queue = Some("queue"),
            !.swapchain = Some(swapchain),
            !.render_pass = Some("render_pass"),
            !.pipeline = Some("pipeline"),
            !.framebuffers = Some(setup.framebuffers),
            !.previous_frame_end = Some(now),
            !.recreate_swapchain = FALSE,
            !.viewport = Some(setup.viewport)]

(* create_swapchain_and_images(...).build().unwrap(): a window of size     *)
(* zero has no supported swapchain dimensions, the unwrap panics.          *)
Startup ==
    /\ UNCHANGED <<pipeline_vars, geometry_vars, world, application_vars,
                   input_vars>>
    /\ pc = "idle"
    /\ rm = create_new
    /\ IF window = <<0, 0>>
       THEN /\ Panic
            /\ UNCHANGED rm
       ELSE /\ \E n \in ImageCounts :
                 rm' = startup(rm, Swapchain(next_swapchain, window, n))
            /\ next_swapchain' = next_swapchain + 1
            /\ UNCHANGED <<window, pc, ret, image_num, suboptimal,
                           acquire_future, future, draws, call, hist>>

(* The OS resizes, minimises or restores the window. *)
Resize ==
    /\ UNCHANGED <<pipeline_vars, geometry_vars, world, application_vars,
                   input_vars>>
    /\ pc # "panicked"
    /\ window' \in WindowSizes \ {window}
    /\ UNCHANGED <<rm, pc, ret, image_num, suboptimal, acquire_future, future,
                   next_swapchain, draws, call, hist>>

----------------------------------------------------------------------------
(* The scene as RenderManager::draw reads it.  An entity is a record of    *)
(* its optional RenderableComponent and TransformComponent; a renderable   *)
(* is [initialized, geometry], the geometry being a GeometryData record.   *)
(* A matrix is the sequence of the factors of a product, the identity      *)
(* being the empty product.                                                *)

Identity == <<>>
Mul(a, b) == a \o b
Factor(m, v) == <<[m |-> m, v |-> v]>>

(* Matrix4::from_translation *)
from_translation(v) == Factor("translation", v)

(* one step of a draw call: a call on the command-buffer builder or on     *)
(* another object, the entity it is made for (0: none) and its argument    *)
Step(op, entity, arg) == [op |-> op, entity |-> entity, arg |-> arg]

(* the join of two storages: the entities that have both components *)
HasBoth(e) == is_some(e.renderable) /\ is_some(e.transform)

(* CameraComponent::calculate_view followed by get_view, and               *)
(* get_perspective: matrices of the camera's own parameters                *)
get_view(camera) == Factor("view", <<camera.id, 0, 0>>)
get_perspective(camera) ==
    Factor("perspective", <<camera.id, camera.aspect[1], camera.aspect[2]>>)

(* Variant: initialize also rebuilds the geometry's CPU data. *)
RenderableComponent_initialize_rebuilds(renderable) ==
    [renderable EXCEPT !.initialized = TRUE,
                       !.geometry.vertices = <<>>,
                       !.geometry.indices = <<>>]

(* RenderableComponent::initialize *)
RenderableComponent_initialize(renderable) ==
    [renderable EXCEPT !.initialized = TRUE]

(* Variant: the initializer pass leaves the storage as it is. *)
RenderableInitializerSystem_run_skips(entities) ==
    entities

(* RenderableInitializerSystem::run over the renderable storage *)
RenderableInitializerSystem_run(entities) ==
    [i \in 1..Len(entities) |->
        IF is_some(entities[i].renderable)
           /\ unwrap(entities[i].renderable).initialized = FALSE
        THEN [entities[i] EXCEPT
                !.renderable =
                    Some(RenderableComponent_initialize(unwrap(entities[i].renderable)))]
        ELSE entities[i]]

(* Variant: the first camera visited supplies view and perspective. *)
RECURSIVE camera_loop_first_wins(_, _, _, _, _)
camera_loop_first_wins(cameras, i, aspect, view, perspective) ==
    IF i > Len(cameras)
    THEN [cameras |-> cameras, view |-> view, perspective |-> perspective]
    ELSE LET camera == [cameras[i] EXCEPT !.aspect = aspect]
         IN  camera_loop_first_wins([cameras EXCEPT ![i] = camera], i + 1, aspect,
                 IF i = 1 THEN get_view(camera) ELSE view,
                 IF i = 1 THEN get_perspective(camera) ELSE perspective)

(* lines 351-363, the loop over the camera storage from the i-th camera    *)
(* on: every camera gets the aspect and overwrites view and perspective    *)
RECURSIVE camera_loop(_, _, _, _, _)
camera_loop(cameras, i, aspect, view, perspective) ==
    IF i > Len(cameras)
    THEN [cameras |-> cameras, view |-> view, perspective |-> perspective]
    ELSE LET camera == [cameras[i] EXCEPT !.aspect = aspect]
         IN  camera_loop([cameras EXCEPT ![i] = camera], i + 1, aspect,
                         get_view(camera), get_perspective(camera))

(* lines 367-391, the loop over the entities with a renderable and a       *)
(* transform from the i-th entity on; slot is the next slot of the         *)
(* frame's uniform pool.  geometry.vertex_buffer() and .index_buffer()     *)
(* unwrap the handle (cube.rs 86-92).                                      *)
RECURSIVE entity_loop(_, _, _, _, _)
entity_loop(entities, i, slot, view_projection, steps) ==
    IF i > Len(entities)
    THEN [steps |-> steps, panicked |-> FALSE]
    ELSE IF ~HasBoth(entities[i])
    THEN entity_loop(entities, i + 1, slot, view_projection, steps)
    ELSE LET transform == unwrap(entities[i].transform)
             geometry == unwrap(entities[i].renderable).geometry
             model_to_world == Mul(transform.rotation,
                                   from_translation(transform.global_position))
             allocated == Append(steps,
                 Step("uniform_buffer.next", i,
                      [slot |-> slot,
                       data |-> Mul(view_projection, model_to_world)]))
         IN  IF ~is_some(geometry.vertex_buffer)
             THEN [steps |-> allocated, panicked |-> TRUE]
             ELSE LET bound == Append(allocated,
                          Step("bind_vertex_buffers", i,
                               unwrap(geometry.vertex_buffer)))
                  IN  IF ~is_some(geometry.index_buffer)
                      THEN [steps |-> bound, panicked |-> TRUE]
                      ELSE entity_loop(entities, i + 1, slot + 1,
                               view_projection,
                               bound \o
                               <<Step("bind_index_buffer", i,
                                      unwrap(geometry.index_buffer)),
                                 Step("draw_indexed", i,
                                      Len(unwrap(geometry.index_buffer).content))>>)

(* Variant: the render pass is ended before the entities are encoded. *)
record_ends_first(self, scene, num, dimensions, steps) ==
    LET created == Append(steps, Step("AutoCommandBufferBuilder::primary", 0, 0))
    IN  IF num >= Len(unwrap(self.framebuffers))
        THEN [world |-> scene, steps |-> created, target |-> None,
              panicked |-> TRUE]
        ELSE LET framebuffer == unwrap(self.framebuffers)[num + 1]
                 begun == created \o
                     <<Step("begin_render_pass", 0, framebuffer),
                       Step("set_viewport", 0, unwrap(self.viewport)),
                       Step("bind_pipeline_graphics", 0, unwrap(self.pipeline)),
                       Step("end_render_pass", 0, 0)>>
                 cameras == camera_loop(scene.cameras, 1, dimensions,
                                        Identity, Identity)
                 drawn == entity_loop(scene.entities, 1, 0,
                              Mul(cameras.perspective, cameras.view), begun)
                 seen == [scene EXCEPT !.cameras = cameras.cameras]
             IN  IF drawn.panicked
                 THEN [world |-> seen, steps |-> drawn.steps,
                       target |-> Some(framebuffer), panicked |-> TRUE]
                 ELSE [world |-> seen,
                       steps |-> Append(drawn.steps, Step("build", 0, 0)),
                       target |-> Some(framebuffer), panicked |-> FALSE]

(* lines 319-396 of draw: the builder is created, the render pass begun    *)
(* on self.framebuffers()[image_num], the cameras and the entities are     *)
(* gone through, the render pass is ended and the command buffer built.    *)
(* steps are the steps of the call so far.                                 *)
record(self, scene, num, dimensions, steps) ==
    LET created == Append(steps, Step("AutoCommandBufferBuilder::primary", 0, 0))
    IN  IF num >= Len(unwrap(self.framebuffers))
        THEN [world |-> scene, steps |-> created, target |-> None,
              panicked |-> TRUE]
        ELSE LET framebuffer == unwrap(self.framebuffers)[num + 1]
                 begun == created \o
                     <<Step("begin_render_pass", 0, framebuffer),
                       Step("set_viewport", 0, unwrap(self.viewport)),
                       Step("bind_pipeline_graphics", 0, unwrap(self.pipeline))>>
                 cameras == camera_loop(scene.cameras, 1, dimensions,
                                        Identity, Identity)
                 drawn == entity_loop(scene.entities, 1, 0,
                              Mul(cameras.perspective, cameras.view), begun)
                 seen == [scene EXCEPT !.cameras = cameras.cameras]
             IN  IF drawn.panicked
                 THEN [world |-> seen, steps |-> drawn.steps,
                       target |-> Some(framebuffer), panicked |-> TRUE]
                 ELSE [world |-> seen,
                       steps |-> drawn.steps \o
                                 <<Step("end_render_pass", 0, 0),
                                   Step("build", 0, 0)>>,
                       target |-> Some(framebuffer), panicked |-> FALSE]

----------------------------------------------------------------------------
(* RenderManager::draw, entry up to the acquisition (lines 305-310) *)

draw_prep ==
    /\ UNCHANGED <<pipeline_vars, geometry_vars, application_vars,
                   input_vars>>
    /\ pc = "idle"
    /\ draws < MaxDraws
    /\ IF ~is_some(rm.device)
       THEN \* insert_render_data_into_scene: self.device.clone().unwrap()
            /\ Panic
            /\ UNCHANGED rm
       ELSE \* self.scene_prep_system.run(...)
            /\ world' = [world EXCEPT
                            !.entities = RenderableInitializerSystem_run(@)]
            /\ pc' = "acquire"
            /\ draws' = draws + 1
            /\ call' = [NoCall EXCEPT
                           !.steps = <<Step("scene_prep_system.run", 0, 0)>>]
            /\ acquire_future' = None
            /\ future' = None
            /\ UNCHANGED <<rm, window, ret, image_num, suboptimal,
                           next_swapchain, hist>>

----------------------------------------------------------------------------
(* RenderManager::acquire_swapchain_image *)

(* what swapchain::acquire_next_image(swapchain, None) can return *)
AcquireResults(swapchain) ==
    [tag : {"Ok"}, image_num : 0..(swapchain.num_images - 1),
     suboptimal : BOOLEAN]
    \cup [tag : {"OutOfDate", "Other"}, image_num : {0}, suboptimal : {FALSE}]

acquire_swapchain_image ==
    /\ UNCHANGED <<pipeline_vars, geometry_vars, world, application_vars,
                   input_vars>>
    /\ pc = "acquire"
    /\ \E r \in AcquireResults(unwrap(rm.swapchain)) :
         CASE r.tag = "Ok" ->
                /\ image_num' = r.image_num
                /\ suboptimal' = r.suboptimal
                /\ acquire_future' = Some([swapchain |-> unwrap(rm.swapchain).id,
                                           image |-> r.image_num])
                /\ pc' = "acquired"
                /\ call' = [call EXCEPT
                               !.acquisitions = Inc(@),
                               !.last_acquire = "Ok",
                               !.acquired_from = unwrap(rm.swapchain).id,
                               !.steps = Append(@,
                                   Step("acquire_next_image", 0, r.image_num))]
                /\ UNCHANGED <<rm, window, ret, future, next_swapchain,
                               draws, hist>>
           [] r.tag = "OutOfDate" ->
                \* self.recreate_swapchain(); self.acquire_swapchain_image()
                /\ pc' = "recreate"
                /\ ret' = "acquire"
                /\ call' = [call EXCEPT !.acquisitions = Inc(@),
                                        !.last_acquire = "OutOfDate"]
                /\ UNCHANGED <<rm, window, image_num, suboptimal,
                               acquire_future, future, next_swapchain,
                               draws, hist>>
           [] OTHER ->
                \* panic!("Failed to acquire next image")
                /\ pc' = "panicked"
                /\ call' = [call EXCEPT !.acquisitions = Inc(@),
                                        !.last_acquire = "Other"]
                /\ UNCHANGED <<rm, window, ret, image_num, suboptimal,
                               acquire_future, future, next_swapchain,
                               draws, hist>>

----------------------------------------------------------------------------
(* RenderManager::recreate_swapchain *)

(* What swapchain.recreate().dimensions(d).build() followed by the         *)
(* framebuffer construction can do: a swapchain with the requested         *)
(* dimensions (none exists for a window of size zero), the error           *)
(* UnsupportedDimensions, another creation error, or a swapchain whose     *)
(* ImageView / Framebuffer construction fails (views_ok = FALSE).          *)
BuildResults(id, dimensions) ==
    (IF dimensions # <<0, 0>> /\ id <= MaxSwapchains
     THEN [tag : {"Ok"}, views_ok : BOOLEAN,
           swapchain : {Swapchain(id, dimensions, n) : n \in ImageCounts}]
     ELSE {})
    \cup [tag : {"UnsupportedDimensions", "Other"}, views_ok : {TRUE},
          swapchain : {Swapchain(0, dimensions, 0)}]

(* Variant: the flag is cleared before the result of build() is matched. *)
recreate_swapchain_clears_early(self, built) ==
    LET cleared == [self EXCEPT !.recreate_swapchain = FALSE]
    IN  IF built.tag = "UnsupportedDimensions"
        THEN [self |-> cleared, panicked |-> FALSE]
        ELSE IF built.tag # "Ok"
        THEN [self |-> cleared, panicked |-> TRUE]
        ELSE LET setup == window_size_dependent_setup(
                              SwapchainImages(built.swapchain),
                              unwrap(self.render_pass), unwrap(self.viewport))
             IN  IF ~built.views_ok
                 THEN [self |-> cleared, panicked |-> TRUE]
                 ELSE [self |-> [cleared EXCEPT
                                   !.framebuffers = Some(setup.framebuffers),
                                   !.swapchain = Some(built.swapchain)],
                       panicked |-> FALSE]

(* Variant: every creation error is handled like UnsupportedDimensions. *)
recreate_swapchain_other_returns(self, built) ==
    IF built.tag # "Ok"
    THEN [self |-> self, panicked |-> FALSE]
    ELSE LET cleared == [self EXCEPT !.recreate_swapchain = FALSE]
             setup == window_size_dependent_setup(
                          SwapchainImages(built.swapchain),
                          unwrap(self.render_pass), unwrap(self.viewport))
         IN  IF ~built.views_ok
             THEN [self |-> cleared, panicked |-> TRUE]
             ELSE [self |-> [cleared EXCEPT
                               !.framebuffers = Some(setup.framebuffers),
                               !.swapchain = Some(built.swapchain)],
                   panicked |-> FALSE]

(* Returns the new value of self and whether the call panicked.  The       *)
(* viewport handed to window_size_dependent_setup is                       *)
(* &mut self.viewport.clone().unwrap(), a temporary: what the setup        *)
(* writes into it is dropped at the end of the statement.                  *)
recreate_swapchain(self, built) ==
    IF built.tag = "UnsupportedDimensions"
    THEN [self |-> self, panicked |-> FALSE]
    ELSE IF built.tag # "Ok"
    THEN [self |-> self, panicked |-> TRUE]
    ELSE LET cleared == [self EXCEPT !.recreate_swapchain = FALSE]
             setup == window_size_dependent_setup(
                          SwapchainImages(built.swapchain),
                          unwrap(self.render_pass), unwrap(self.viewport))
         IN  IF ~built.views_ok
             THEN [self |-> cleared, panicked |-> TRUE]
             ELSE [self |-> [cleared EXCEPT
                               !.framebuffers = Some(setup.framebuffers),
                               !.swapchain = Some(built.swapchain)],
                   panicked |-> FALSE]

RecreateSwapchain ==
    /\ UNCHANGED <<pipeline_vars, geometry_vars, world, application_vars,
                   input_vars>>
    /\ pc = "recreate"
    /\ \E built \in BuildResults(next_swapchain, window) :
         LET r == recreate_swapchain(rm, built)
         IN  /\ rm' = r.self
             /\ next_swapchain' =
                    IF built.tag = "Ok" THEN next_swapchain + 1
                    ELSE next_swapchain
             /\ pc' = IF r.panicked THEN "panicked" ELSE ret
             /\ call' = [call EXCEPT
                            !.recreations = Inc(@),
                            !.acquire_recreations =
                                IF ret = "acquire" THEN Inc(@) ELSE @,
                            !.last_recreate = built.tag,
                            !.replaced_after_acquire =
                                @ \/ (ret = "record" /\ r.self.swapchain # rm.swapchain)]
             /\ UNCHANGED <<window, ret, image_num, suboptimal,
                            acquire_future, future, draws, hist>>

----------------------------------------------------------------------------
(* RenderManager::draw, after the acquisition *)

(* lines 315-317: if suboptimal { self.recreate_swapchain() } *)
draw_suboptimal ==
    /\ UNCHANGED <<pipeline_vars, geometry_vars, world, application_vars,
                   input_vars>>
    /\ pc = "acquired"
    /\ IF suboptimal
       THEN /\ pc' = "recreate"
            /\ ret' = "record"
       ELSE /\ pc' = "record"
            /\ UNCHANGED ret
    /\ UNCHANGED <<rm, window, image_num, suboptimal, acquire_future, future,
                   next_swapchain, draws, call, hist>>

(* Variant: the suboptimal acquisition is acted on after the recording. *)
draw_record_then_recreates ==
    /\ UNCHANGED <<pipeline_vars, geometry_vars, application_vars,
                   input_vars>>
    /\ pc = "record"
    /\ LET r == record(rm, world, image_num, window, call.steps)
       IN  /\ pc' = IF r.panicked THEN "panicked"
                    ELSE IF suboptimal THEN "recreate" ELSE "submit"
           /\ ret' = "submit"
           /\ world' = r.world
           /\ call' = [call EXCEPT !.target = r.target, !.steps = r.steps]
    /\ UNCHANGED <<rm, window, image_num, suboptimal, acquire_future,
                   future, next_swapchain, draws, hist>>

(* lines 319-396: the command buffer is recorded into                      *)
(* self.framebuffers()[image_num]; an index out of range and a geometry    *)
(* without buffers panic.                                                  *)
draw_record ==
    /\ UNCHANGED <<pipeline_vars, geometry_vars, application_vars,
                   input_vars>>
    /\ pc = "record"
    /\ LET r == record(rm, world, image_num, window, call.steps)
       IN  /\ pc' = IF r.panicked THEN "panicked" ELSE "submit"
           /\ world' = r.world
           /\ call' = [call EXCEPT !.target = r.target, !.steps = r.steps]
    /\ UNCHANGED <<rm, window, ret, image_num, suboptimal, acquire_future,
                   future, next_swapchain, draws, hist>>

(* What the chain join / then_execute / then_swapchain_present /           *)
(* then_signal_fence_and_flush of draw n can return; ExecError is the      *)
(* Err of then_execute, which is unwrapped.                                *)
FlushResults(n) ==
    {[tag |-> "Ok", future |-> FenceSignalFuture(n)],
     [tag |-> "OutOfDate", future |-> now],
     [tag |-> "Other", future |-> now],
     [tag |-> "ExecError", future |-> now]}

(* lines 401-408 *)
draw_submit ==
    /\ UNCHANGED <<pipeline_vars, geometry_vars, world, application_vars,
                   input_vars>>
    /\ pc = "submit"
    /\ is_some(rm.previous_frame_end)
    /\ \E r \in FlushResults(draws) :
         /\ rm' = [rm EXCEPT !.previous_frame_end = None]
         /\ call' = [call EXCEPT
                        !.taken = Inc(@),
                        !.joined = rm.previous_frame_end,
                        !.presented_to =
                            IF r.tag = "ExecError" THEN @
                            ELSE unwrap(rm.swapchain).id,
                        !.steps =
                            @ \o <<Step("join", 0, acquire_future),
                                   Step("then_execute", 0, 0)>>
                              \o IF r.tag = "ExecError" THEN <<>>
                                 ELSE <<Step("then_swapchain_present", 0,
                                             unwrap(rm.swapchain).id),
                                        Step("then_signal_fence_and_flush", 0,
                                             r.tag)>>]
         /\ IF r.tag = "ExecError"
            THEN /\ pc' = "panicked"
                 /\ UNCHANGED <<future, hist>>
            ELSE /\ pc' = "flushed"
                 /\ future' = Some(r)
                 /\ hist' = [hist EXCEPT
                                !.produced = IF r.tag = "Ok" THEN @ + 1 ELSE @]
         /\ UNCHANGED <<window, ret, image_num, suboptimal, acquire_future,
                        next_swapchain, draws>>

(* Variant: the Ok arm stores a fresh sync::now instead of the future. *)
match_future_placeholder(self, result) ==
    CASE result.tag = "OutOfDate" ->
            [self EXCEPT !.recreate_swapchain = TRUE,
                         !.previous_frame_end = Some(now)]
      [] OTHER ->
            [self EXCEPT !.previous_frame_end = Some(now)]

(* Variant: the Err(e) arm only logs. *)
match_future_drops(self, result) ==
    CASE result.tag = "Ok" ->
            [self EXCEPT !.previous_frame_end = Some(result.future)]
      [] result.tag = "OutOfDate" ->
            [self EXCEPT !.recreate_swapchain = TRUE,
                         !.previous_frame_end = Some(now)]
      [] OTHER -> self

(* Variant: the Ok arm also clears the recreation flag. *)
match_future_clears_flag(self, result) ==
    CASE result.tag = "Ok" ->
            [self EXCEPT !.recreate_swapchain = FALSE,
                         !.previous_frame_end = Some(result.future)]
      [] result.tag = "OutOfDate" ->
            [self EXCEPT !.recreate_swapchain = TRUE,
                         !.previous_frame_end = Some(now)]
      [] OTHER ->
            [self EXCEPT !.previous_frame_end = Some(now)]

(* Variant: the catch-all Err(e) arm comes first and takes OutOfDate too. *)
match_future_arm_order(self, result) ==
    CASE result.tag = "Ok" ->
            [self EXCEPT !.previous_frame_end = Some(result.future)]
      [] OTHER ->
            [self EXCEPT !.previous_frame_end = Some(now)]

(* Variant: the Err(e) arm marks the swapchain for recreation as well. *)
match_future_other_sets_flag(self, result) ==
    CASE result.tag = "Ok" ->
            [self EXCEPT !.previous_frame_end = Some(result.future)]
      [] OTHER ->
            [self EXCEPT !.recreate_swapchain = TRUE,
                         !.previous_frame_end = Some(now)]

(* lines 410-422: match future { Ok / Err(OutOfDate) / Err(e) } *)
match_future(self, result) ==
    CASE result.tag = "Ok" ->
            [self EXCEPT !.previous_frame_end = Some(result.future)]
      [] result.tag = "OutOfDate" ->
            [self EXCEPT !.recreate_swapchain = TRUE,
                         !.previous_frame_end = Some(now)]
      [] OTHER ->
            [self EXCEPT !.previous_frame_end = Some(now)]

(* Variant: a flush error other than OutOfDate is unwrapped. *)
draw_match_future_fatal ==
    /\ UNCHANGED <<pipeline_vars, geometry_vars, world, application_vars,
                   input_vars>>
    /\ pc = "flushed"
    /\ IF unwrap(future).tag = "Other"
       THEN /\ pc' = "panicked"
            /\ UNCHANGED <<rm, call, hist>>
       ELSE /\ rm' = match_future(rm, unwrap(future))
            /\ pc' = "idle"
            /\ call' = [call EXCEPT
                           !.stored = IF rm'.previous_frame_end # rm.previous_frame_end
                                      THEN Inc(@) ELSE @]
            /\ hist' = [hist EXCEPT
                           !.succeeded = IF unwrap(future).tag = "Ok" THEN @ + 1 ELSE @,
                           !.last_result = unwrap(future).tag]
    /\ UNCHANGED <<window, ret, image_num, suboptimal, acquire_future, future,
                   next_swapchain, draws>>

draw_match_future ==
    /\ UNCHANGED <<pipeline_vars, geometry_vars, world, application_vars,
                   input_vars>>
    /\ pc = "flushed"
    /\ rm' = match_future(rm, unwrap(future))
    /\ pc' = "idle"
    /\ call' = [call EXCEPT
                   !.stored = IF rm'.previous_frame_end # rm.previous_frame_end
                              THEN Inc(@) ELSE @]
    /\ hist' = [hist EXCEPT
                   !.succeeded = IF unwrap(future).tag = "Ok" THEN @ + 1 ELSE @,
                   !.last_result = unwrap(future).tag]
    /\ UNCHANGED <<window, ret, image_num, suboptimal, acquire_future, future,
                   next_swapchain, draws>>

----------------------------------------------------------------------------

(* the steps of the render thread inside one draw call *)
DrawStep ==
    \/ acquire_swapchain_image
    \/ RecreateSwapchain
    \/ draw_suboptimal
    \/ draw_record
    \/ draw_submit
    \/ draw_match_future

Next ==
    \/ Startup
    \/ Resize
    \/ draw_prep
    \/ acquire_swapchain_image
    \/ RecreateSwapchain
    \/ draw_suboptimal
    \/ draw_record
    \/ draw_submit
    \/ draw_match_future

Spec == Init /\ [][Next]_vars

(* The render thread is the only thread: once inside draw it keeps         *)
(* executing until the call returns or the process panics.                 *)
FairSpec == Spec /\ WF_vars(DrawStep)

----------------------------------------------------------------------------
(* The terrain systems (terrain_systems.rs) *)

TerrainKey == "TerrainDrawSystemPipeline"

(* A terrain entity as TerrainDrawSystem reads it: the geometry's GPU      *)
(* buffers (None before the terrain is initialized) and the number of      *)
(* indices in the index buffer.                                            *)
Terrain(initialized, indices) ==
    [geometry |-> [vertex_buffer |-> IF initialized THEN Some("vertices") ELSE None,
                   index_buffer |-> IF initialized THEN Some([len |-> indices])
                                    ELSE None]]

TerrainWorlds ==
    LET kinds == {Terrain(TRUE, 6), Terrain(TRUE, 24), Terrain(FALSE, 0)}
    IN  UNION {[1..n -> kinds] : n \in 0..MaxTerrains}

(* the setup the systems rely on: the initial pipeline of the terrain draw *)
(* system is built and registered                                          *)
SetupPipeline ==
    /\ UNCHANGED <<render_vars, geometry_vars, application_vars,
                   input_vars>>
    /\ pc = "idle"
    /\ get_pipeline_for_system(scene_state, TerrainKey) = None
    /\ next_pipeline <= MaxPipelines
    /\ LET pipeline == create_graphics_pipeline(next_pipeline,
                                                scene_state.render_passes[1])
       IN  /\ scene_state' = set_pipeline_for_system(scene_state, TerrainKey,
                                                     pipeline)
           /\ sys' = [sys EXCEPT !.published = Append(@, pipeline)]
    /\ next_pipeline' = next_pipeline + 1
    /\ UNCHANGED <<pc, key_input, modifiers, buffers, terrains>>

(* the input manager replaces the frame's pressed-key set *)
KeyInput ==
    /\ UNCHANGED <<render_vars, geometry_vars, application_vars,
                   input_vars>>
    /\ pc = "idle"
    /\ key_input' \in (SUBSET Keys) \ {key_input}
    /\ UNCHANGED <<pc, scene_state, modifiers, buffers, terrains,
                   next_pipeline, sys>>

(* the input manager replaces the modifier state *)
ModifiersChanged ==
    /\ UNCHANGED <<render_vars, geometry_vars, application_vars,
                   input_vars>>
    /\ pc = "idle"
    /\ modifiers' \in [shift : BOOLEAN, alt : BOOLEAN] \ {modifiers}
    /\ UNCHANGED <<pc, scene_state, key_input, buffers, terrains,
                   next_pipeline, sys>>

(* Variant: a missing pipeline makes the system skip the frame. *)
TerrainDraw_skips(state, entities) ==
    LET found == get_pipeline_for_system(state, TerrainKey)
    IN  IF found = None
        THEN [panicked |-> FALSE, bound |-> None, commands |-> <<>>]
        ELSE LET bad == {i \in 1..Len(entities) :
                            \/ ~is_some(entities[i].geometry.vertex_buffer)
                            \/ ~is_some(entities[i].geometry.index_buffer)}
                 n == IF bad = {} THEN Len(entities)
                      ELSE (CHOOSE i \in bad : \A j \in bad : i <= j) - 1
             IN  [panicked |-> bad # {},
                  bound |-> found,
                  commands |-> [i \in 1..n |->
                      [pipeline |-> unwrap(found),
                       viewport |-> state.viewport,
                       vertex_buffer |-> unwrap(entities[i].geometry.vertex_buffer),
                       draw_indexed |->
                           unwrap(entities[i].geometry.index_buffer).len]]]

(* Variant: the system builds its own pipeline instead of looking it up. *)
TerrainDraw_own_pipeline(state, entities) ==
    LET found == get_pipeline_for_system(state, TerrainKey)
        own == Some(create_graphics_pipeline(0, state.render_passes[1]))
    IN  IF found = None
        THEN [panicked |-> TRUE, bound |-> None, commands |-> <<>>]
        ELSE LET bad == {i \in 1..Len(entities) :
                            \/ ~is_some(entities[i].geometry.vertex_buffer)
                            \/ ~is_some(entities[i].geometry.index_buffer)}
                 n == IF bad = {} THEN Len(entities)
                      ELSE (CHOOSE i \in bad : \A j \in bad : i <= j) - 1
             IN  [panicked |-> bad # {},
                  bound |-> own,
                  commands |-> [i \in 1..n |->
                      [pipeline |-> unwrap(own),
                       viewport |-> state.viewport,
                       vertex_buffer |-> unwrap(entities[i].geometry.vertex_buffer),
                       draw_indexed |->
                           unwrap(entities[i].geometry.index_buffer).len]]]

(* TerrainDrawSystem, lines 113-181: the pipeline lookup (expect), then    *)
(* one secondary command buffer per entity; unwrapping the buffers of an   *)
(* uninitialized geometry panics, after the buffers of the entities        *)
(* before it were pushed.                                                  *)
TerrainDraw(state, entities) ==
    LET found == get_pipeline_for_system(state, TerrainKey)
    IN  IF found = None
        THEN [panicked |-> TRUE, bound |-> None, commands |-> <<>>]
        ELSE LET bad == {i \in 1..Len(entities) :
                            \/ ~is_some(entities[i].geometry.vertex_buffer)
                            \/ ~is_some(entities[i].geometry.index_buffer)}
                 n == IF bad = {} THEN Len(entities)
                      ELSE (CHOOSE i \in bad : \A j \in bad : i <= j) - 1
             IN  [panicked |-> bad # {},
                  bound |-> found,
                  commands |-> [i \in 1..n |->
                      [pipeline |-> unwrap(found),
                       viewport |-> state.viewport,
                       vertex_buffer |-> unwrap(entities[i].geometry.vertex_buffer),
                       draw_indexed |->
                           unwrap(entities[i].geometry.index_buffer).len]]]

TerrainDrawSystem ==
    /\ UNCHANGED <<render_vars, geometry_vars, application_vars,
                   input_vars>>
    /\ pc = "idle"
    /\ Len(buffers) + Len(terrains) <= MaxBuffers
    /\ LET r == TerrainDraw(scene_state, terrains)
       IN  /\ buffers' = buffers \o r.commands
           /\ pc' = IF r.panicked THEN "panicked" ELSE pc
           /\ sys' = [sys EXCEPT
                         !.tick = 1 - @,
                         !.last_run = "TerrainDrawSystem",
                         !.bound = r.bound,
                         !.encoded = Len(r.commands)]
    /\ UNCHANGED <<scene_state, key_input, modifiers, terrains, next_pipeline>>

(* Variant: the catch-all arm falls back to TriangleList. *)
toggle_topology_default(topology) ==
    CASE topology = "TriangleList" -> Some("LineStrip")
      [] OTHER -> Some("TriangleList")

(* lines 195-204: the match on the current topology; None is the           *)
(* unreachable!() arm.                                                     *)
toggle_topology(topology) ==
    CASE topology = "TriangleList" -> Some("LineStrip")
      [] topology = "LineStrip" -> Some("TriangleList")
      [] OTHER -> None

(* Variant: the Alt modifier is not tested. *)
TerrainAssemblyStateModifier_ignores_alt(state, input, mods, id) ==
    IF mods.shift /\ "Z" \in input
    THEN LET found == get_pipeline_for_system(state, TerrainKey)
         IN  IF found = None
             THEN [state |-> state, panicked |-> TRUE, published |-> None]
             ELSE LET topology == toggle_topology(unwrap(found).topology)
                  IN  IF topology = None
                      THEN [state |-> state, panicked |-> TRUE,
                            published |-> None]
                      ELSE LET subpass == Subpass(state.render_passes[1], 0)
                               pipeline == create_pipeline(id, subpass,
                                                           unwrap(topology))
                           IN  [state |-> set_pipeline_for_system(
                                              state, TerrainKey, pipeline),
                                panicked |-> FALSE,
                                published |-> Some(pipeline)]
    ELSE [state |-> state, panicked |-> FALSE, published |-> None]

(* TerrainAssemblyStateModifierSystem, lines 192-208; id is the identity   *)
(* of the pipeline object create_pipeline gets from the device.  Returns   *)
(* the scene state, whether the system panicked, and the pipeline it       *)
(* passed to set_pipeline_for_system.                                      *)
TerrainAssemblyStateModifier(state, input, mods, id) ==
    IF mods.shift /\ mods.alt /\ "Z" \in input
    THEN LET found == get_pipeline_for_system(state, TerrainKey)
         IN  IF found = None
             THEN [state |-> state, panicked |-> TRUE, published |-> None]
             ELSE LET topology == toggle_topology(unwrap(found).topology)
                  IN  IF topology = None
                      THEN [state |-> state, panicked |-> TRUE,
                            published |-> None]
                      ELSE LET subpass == Subpass(state.render_passes[1], 0)
                               pipeline == create_pipeline(id, subpass,
                                                           unwrap(topology))
                           IN  [state |-> set_pipeline_for_system(
                                              state, TerrainKey, pipeline),
                                panicked |-> FALSE,
                                published |-> Some(pipeline)]
    ELSE [state |-> state, panicked |-> FALSE, published |-> None]

TerrainAssemblyStateModifierSystem ==
    /\ UNCHANGED <<render_vars, geometry_vars, application_vars,
                   input_vars>>
    /\ pc = "idle"
    /\ next_pipeline <= MaxPipelines
    /\ LET r == TerrainAssemblyStateModifier(scene_state, key_input,
                                             modifiers, next_pipeline)
       IN  /\ scene_state' = r.state
           /\ pc' = IF r.panicked THEN "panicked" ELSE pc
           /\ next_pipeline' = IF is_some(r.published)
                               THEN next_pipeline + 1 ELSE next_pipeline
           /\ sys' = [sys EXCEPT
                         !.tick = 1 - @,
                         !.last_run = "TerrainAssemblyStateModifierSystem",
                         !.published = @ \o r.published,
                         !.seen = Some([input |-> key_input,
                                        modifiers |-> modifiers])]
    /\ UNCHANGED <<key_input, modifiers, buffers, terrains>>

PipelineNext ==
    \/ SetupPipeline
    \/ KeyInput
    \/ ModifiersChanged
    \/ TerrainDrawSystem
    \/ TerrainAssemblyStateModifierSystem

(* the systems on a fresh scene with any terrain entities *)
PipelineInit ==
    /\ NoApplication
    /\ NoInput
    /\ NoRender
    /\ NoGeometry
    /\ pc = "idle"
    /\ scene_state = NewSceneState
    /\ key_input = {}
    /\ modifiers = [shift |-> FALSE, alt |-> FALSE]
    /\ buffers = <<>>
    /\ terrains \in TerrainWorlds
    /\ next_pipeline = 1
    /\ sys = NoSys

PipelineSpec == PipelineInit /\ [][PipelineNext]_vars

(* the systems on a scene whose registered terrain pipeline, if any, has   *)
(* any topology                                                            *)
ToggleInit ==
    /\ NoApplication
    /\ NoInput
    /\ NoRender
    /\ NoGeometry
    /\ pc = "idle"
    /\ key_input = {}
    /\ modifiers = [shift |-> FALSE, alt |-> FALSE]
    /\ buffers = <<>>
    /\ terrains \in TerrainWorlds
    /\ \/ /\ scene_state = NewSceneState
          /\ next_pipeline = 1
          /\ sys = NoSys
       \/ \E topology \in Topologies \ {"TriangleList"} :
            LET pipeline == create_pipeline(1, Subpass("render_pass", 0),
                                            topology)
            IN  /\ scene_state = set_pipeline_for_system(NewSceneState,
                                                         TerrainKey, pipeline)
                /\ next_pipeline = 2
                /\ sys = [NoSys EXCEPT !.published = <<pipeline>>]

ToggleSpec == ToggleInit /\ [][PipelineNext]_vars

----------------------------------------------------------------------------
(* The geometry initializer (geometry_init.rs) and CubeGeometry (cube.rs)  *)

GeometryTypes == {"Box", "Triangle", "Plane"}

(* Vertex::new(x, y, z); coordinates are counted in units of 0.5 *)
Vertex(x, y, z) == [position |-> <<x, y, z>>]

(* GeometryData of a geometry that was not uploaded (cube.rs 46-54) *)
GeometryData(vertices, indices) ==
    [vertices |-> vertices,
     indices |-> indices,
     vertex_buffer |-> None,
     index_buffer |-> None,
     initialized |-> FALSE]

(* CubeGeometry::create *)
CubeGeometry_create ==
    LET dx == 1
        tl0 == Vertex(0 - dx, 0 + dx, 0 - dx)
        tr0 == Vertex(0 + dx, 0 + dx, 0 - dx)
        bl0 == Vertex(0 - dx, 0 - dx, 0 - dx)
        br0 == Vertex(0 + dx, 0 - dx, 0 - dx)
        tl1 == Vertex(0 - dx, 0 + dx, 0 + dx)
        tr1 == Vertex(0 + dx, 0 + dx, 0 + dx)
        bl1 == Vertex(0 - dx, 0 - dx, 0 + dx)
        br1 == Vertex(0 + dx, 0 - dx, 0 + dx)
        vertices == <<tl0, tr0, bl0, br0, tl1, tr1, bl1, br1>>
        indices == <<4, 5, 7, 6, 4, 7,
                     3, 2, 7, 2, 6, 7,
                     7, 5, 1, 3, 7, 1,
                     5, 4, 0, 1, 5, 0,
                     4, 6, 2, 0, 4, 2,
                     2, 3, 0, 1, 2, 0>>
    IN  [data |-> GeometryData(vertices, indices)]

(* What the two CpuAccessibleBuffer::from_iter calls of one initialize     *)
(* call return: both buffers, or an allocation error at the first or at    *)
(* the second.                                                             *)
UploadOutcomes == {"Ok", "VertexBufferError", "IndexBufferError"}

(* the buffer a successful from_iter returns: a new device object holding  *)
(* a copy of the data                                                      *)
CpuAccessibleBuffer(id, data) == [id |-> id, content |-> data]

(* Variant: each handle is stored as soon as its buffer exists. *)
initialize_stores_early(data, outcome, id) ==
    IF outcome = "VertexBufferError"
    THEN [data |-> data, panicked |-> TRUE]
    ELSE LET vertex_buffer == CpuAccessibleBuffer(id, data.vertices)
             stored == [data EXCEPT !.vertex_buffer = Some(vertex_buffer)]
         IN  IF outcome = "IndexBufferError"
             THEN [data |-> stored, panicked |-> TRUE]
             ELSE [data |-> [stored EXCEPT
                               !.index_buffer =
                                   Some(CpuAccessibleBuffer(id + 1, data.indices)),
                               !.initialized = TRUE],
                   panicked |-> FALSE]

(* initialize (cube.rs 57-84): both uploads are unwrapped before the first *)
(* assignment; there is no test of data.initialized.  id is the id of the  *)
(* next buffer object of the device.                                       *)
initialize(data, outcome, id) ==
    IF outcome # "Ok"
    THEN [data |-> data, panicked |-> TRUE]
    ELSE LET vertex_buffer == CpuAccessibleBuffer(id, data.vertices)
             index_buffer == CpuAccessibleBuffer(id + 1, data.indices)
         IN  [data |-> [data EXCEPT !.vertex_buffer = Some(vertex_buffer),
                                    !.index_buffer = Some(index_buffer),
                                    !.initialized = TRUE],
              panicked |-> FALSE]

(* Variant: the cube's data is pushed onto the data the geometry has. *)
init_cube_extends(geom) ==
    LET made == CubeGeometry_create.data
    IN  [geom EXCEPT !.vertices = @ \o made.vertices,
                     !.indices = @ \o made.indices]

(* GeometryInitializerSystem::init_cube *)
init_cube(geom) ==
    LET dx == 1
        tl0 == Vertex(0 - dx, 0 + dx, 0 - dx)
        tr0 == Vertex(0 + dx, 0 + dx, 0 - dx)
        bl0 == Vertex(0 - dx, 0 - dx, 0 - dx)
        br0 == Vertex(0 + dx, 0 - dx, 0 - dx)
        tl1 == Vertex(0 - dx, 0 + dx, 0 + dx)
        tr1 == Vertex(0 + dx, 0 + dx, 0 + dx)
        bl1 == Vertex(0 - dx, 0 - dx, 0 + dx)
        br1 == Vertex(0 + dx, 0 - dx, 0 + dx)
        vertices == <<tl0, tr0, bl0, br0, tl1, tr1, bl1, br1>>
        indices == <<4, 5, 7, 6, 4, 7,
                     3, 2, 7, 2, 6, 7,
                     7, 5, 1, 3, 7, 1,
                     5, 4, 0, 1, 5, 0,
                     4, 6, 2, 0, 4, 2,
                     2, 3, 0, 1, 2, 0>>
    IN  [geom EXCEPT !.vertices = vertices, !.indices = indices]

(* GeometryInitializerSystem::init_plane *)
init_plane(geom) ==
    LET corner_offset == 1
        tl == Vertex(-corner_offset, corner_offset, 0)
        tr == Vertex(corner_offset, corner_offset, 0)
        bl == Vertex(-corner_offset, -corner_offset, 0)
        br == Vertex(corner_offset, -corner_offset, 0)
    IN  [geom EXCEPT !.vertices = <<tl, tr, bl, br>>,
                     !.indices = <<0, 1, 3, 2, 0, 3>>]

(* GeometryInitializerSystem::init_triangle *)
init_triangle(geom) ==
    LET corner_offset == 1
        vertices == <<Vertex(-corner_offset, -corner_offset, 0),
                      Vertex(0, corner_offset, 0),
                      Vertex(corner_offset, -corner_offset, 0)>>
    IN  [geom EXCEPT !.vertices = vertices, !.indices = <<0, 1, 2, 0>>]

(* GeometryInitializerSystem::create_geometry *)
create_geometry(geom, outcome, id) ==
    LET made == CASE geom.geometry_type = "Box" -> init_cube(geom)
                  [] geom.geometry_type = "Triangle" -> init_triangle(geom)
                  [] geom.geometry_type = "Plane" -> init_plane(geom)
    IN  initialize(made, outcome, id)

(* The body of the loop of GeometryInitializerSystem::run for one          *)
(* geometry: create_geometry, then initialize once more.  initializes is   *)
(* the number of initialize calls that uploaded.                           *)
run_geometry(geom, first, second, id) ==
    LET created == create_geometry(geom, first, id)
    IN  IF created.panicked
        THEN [data |-> created.data, panicked |-> TRUE, initializes |-> 0]
        ELSE LET again == initialize(created.data, second, id + 2)
             IN  [data |-> again.data, panicked |-> again.panicked,
                  initializes |-> IF again.panicked THEN 1 ELSE 2]

(* GeometryInitializerSystem::run from the i-th geometry of the storage    *)
(* on; outcomes[2i-1] and outcomes[2i] are the upload outcomes of the two  *)
(* initialize calls for the i-th geometry.                                 *)
RECURSIVE run(_, _, _, _, _)
run(storage, initializes, i, outcomes, id) ==
    IF i > Len(storage)
    THEN [geometries |-> storage, initializes |-> initializes,
          panicked |-> FALSE, next_buffer |-> id]
    ELSE LET r == run_geometry(storage[i], outcomes[2 * i - 1],
                               outcomes[2 * i], id)
             stored == [storage EXCEPT ![i] = r.data]
             counted == [initializes EXCEPT ![i] = @ + r.initializes]
         IN  IF r.panicked
             THEN [geometries |-> stored, initializes |-> counted,
                   panicked |-> TRUE, next_buffer |-> id + 2 * r.initializes]
             ELSE run(stored, counted, i + 1, outcomes, id + 4)

(* the dispatcher runs the geometry initializer *)
GeometryInitializerSystem ==
    /\ UNCHANGED <<render_vars, pipeline_vars, application_vars,
                   input_vars>>
    /\ pc = "idle"
    /\ geo.runs < MaxRuns
    /\ \E outcomes \in [1..(2 * Len(geometries)) -> UploadOutcomes] :
         LET r == run(geometries, geo.initializes, 1, outcomes, geo.next_buffer)
         IN  /\ geometries' = r.geometries
             /\ geo' = [geo EXCEPT !.runs = @ + 1,
                                   !.initializes = r.initializes,
                                   !.next_buffer = r.next_buffer]
             /\ pc' = IF r.panicked THEN "panicked" ELSE pc
    /\ UNCHANGED cube

(* a cube geometry is made *)
CubeCreate ==
    /\ UNCHANGED <<render_vars, pipeline_vars, application_vars,
                   input_vars>>
    /\ pc = "idle"
    /\ cube = None
    /\ cube' = Some(CubeGeometry_create)
    /\ UNCHANGED <<pc, geometries, geo>>

(* CubeGeometry::initialize is called on the cube *)
CubeInitialize ==
    /\ UNCHANGED <<render_vars, pipeline_vars, application_vars,
                   input_vars>>
    /\ pc = "idle"
    /\ is_some(cube)
    /\ geo.cube_initializes < MaxInitializes
    /\ \E outcome \in UploadOutcomes :
         LET r == initialize(unwrap(cube).data, outcome, geo.next_buffer)
         IN  /\ cube' = Some([data |-> r.data])
             /\ geo' = [geo EXCEPT
                          !.cube_initializes = @ + 1,
                          !.next_buffer = IF r.panicked THEN @ ELSE @ + 2]
             /\ pc' = IF r.panicked THEN "panicked" ELSE pc
    /\ UNCHANGED geometries

GeometryNext ==
    \/ GeometryInitializerSystem
    \/ CubeCreate
    \/ CubeInitialize

(* A geometry entity as it is added to the world: of one of the three      *)
(* types, not uploaded, its CPU data empty or left from an earlier shape.  *)
GeometryComponents ==
    {GeometryData(data[1], data[2]) @@ [geometry_type |-> type] :
        type \in GeometryTypes,
        data \in {<<<<>>, <<>>>>, <<<<Vertex(0, 0, 0)>>, <<0>>>>}}

GeometryWorlds ==
    UNION {[1..n -> GeometryComponents] : n \in 0..MaxGeometries}

GeometryInit ==
    /\ NoApplication
    /\ NoInput
    /\ pc = "idle"
    /\ NoRender
    /\ NoSystems
    /\ geometries \in GeometryWorlds
    /\ cube = None
    /\ geo = [NoGeo EXCEPT !.initializes = [i \in 1..Len(geometries) |-> 0]]

GeometrySpec == GeometryInit /\ [][GeometryNext]_vars

----------------------------------------------------------------------------
(* Draw calls on a scene with entities and cameras *)

(* TransformComponent *)
Transform(position, rotation) ==
    [global_position |-> position, rotation |-> rotation, scale |-> 1]

(* RenderableComponent *)
Renderable(initialized, geometry) ==
    [initialized |-> initialized, geometry |-> geometry]

(* The entities of the scenes: a cube at the origin the initializer has    *)
(* not seen, a rotated plane it has seen, a cube whose buffers were not    *)
(* uploaded, a renderable without a transform, a transform without a       *)
(* renderable.                                                             *)
Entities ==
    LET cube_data == CubeGeometry_create.data
        plane_data == init_plane(GeometryData(<<>>, <<>>))
        origin == Transform(<<0, 0, 0>>, Identity)
        turned == Transform(<<1, 2, 3>>, Factor("rotation", <<0, 0, 90>>))
    IN  {[renderable |-> Some(Renderable(FALSE, initialize(cube_data, "Ok", 1).data)),
          transform |-> Some(origin)],
         [renderable |-> Some(Renderable(TRUE, initialize(plane_data, "Ok", 3).data)),
          transform |-> Some(turned)],
         [renderable |-> Some(Renderable(FALSE, cube_data)),
          transform |-> Some(origin)],
         [renderable |-> Some(Renderable(FALSE, initialize(cube_data, "Ok", 5).data)),
          transform |-> None],
         [renderable |-> None, transform |-> Some(turned)]}

(* CameraComponent, with the aspect of the frame drawn before *)
Camera(id) == [id |-> id, aspect |-> <<1, 1>>]

(* the camera storages: no camera, one, or two in either order *)
CameraStorages ==
    {<<>>, <<Camera(1)>>, <<Camera(2)>>,
     <<Camera(1), Camera(2)>>, <<Camera(2), Camera(1)>>}

Worlds ==
    [entities : UNION {[1..n -> Entities] : n \in 0..MaxEntities},
     cameras : CameraStorages]

(* the render manager is constructed, the scene is loaded, and the model   *)
(* follows one draw call                                                   *)
RecordInit ==
    /\ NoApplication
    /\ NoInput
    /\ rm = create_new
    /\ window = <<800, 600>>
    /\ pc = "idle"
    /\ ret = "idle"
    /\ image_num = 0
    /\ suboptimal = FALSE
    /\ acquire_future = None
    /\ future = None
    /\ next_swapchain = 1
    /\ draws = MaxDraws - 1
    /\ call = NoCall
    /\ hist = NoHist
    /\ world \in Worlds
    /\ NoSystems
    /\ NoGeometry

RecordNext ==
    \/ Startup
    \/ draw_prep
    \/ acquire_swapchain_image
    \/ RecreateSwapchain
    \/ draw_suboptimal
    \/ draw_record
    \/ draw_submit
    \/ draw_match_future

RecordSpec == RecordInit /\ [][RecordNext]_vars

----------------------------------------------------------------------------
(* The Application and the systems registered to it *)

MaxCalls == 4

(* the types register_system is instantiated with *)
SystemNames == {"PhysicsSystem", "RenderSystem", "Application"}

(* a system object: PhysicsSystem{}, RenderSystem{}, ... *)
System(name, id) == [name |-> name, id |-> id]

(* a call the Application makes on a system *)
Event(op, system) == [op |-> op, system |-> system]

(* Variant: the system is put in front of the list. *)
register_system_prepends(self, system) ==
    [self EXCEPT !.systems = <<system>> \o @]

(* Application::register_system *)
register_system(self, system) ==
    [self EXCEPT !.systems = Append(@, system)]

(* Application::startup; id is the identity of the first system object it  *)
(* constructs.  Returns the application and the calls made, in order.      *)
Application_startup(self, id) ==
    LET physics_system == System("PhysicsSystem", id)
        render_system == System("RenderSystem", id + 1)
    IN  [self |-> register_system(register_system(self, physics_system),
                                  render_system),
         events |-> <<Event("startup", physics_system),
                      Event("startup", render_system),
                      Event("register_system", physics_system),
                      Event("register_system", render_system)>>,
         panicked |-> FALSE]

(* Application::shutdown: self.systems[0] and self.systems[1] are indexed  *)
(* without a test of the length; an index out of bounds panics.            *)
Application_shutdown(self) ==
    IF Len(self.systems) = 0
    THEN [self |-> self, events |-> <<>>, panicked |-> TRUE]
    ELSE IF Len(self.systems) = 1
    THEN [self |-> self,
          events |-> <<Event("shutdown", self.systems[1])>>,
          panicked |-> TRUE]
    ELSE [self |-> [self EXCEPT !.systems = <<>>],
          events |-> <<Event("shutdown", self.systems[1]),
                       Event("shutdown", self.systems[2])>>,
          panicked |-> FALSE]

(* Application::update *)
Application_update(self) ==
    [self |-> self,
     events |-> [i \in 1..Len(self.systems) |->
                    Event("update", self.systems[i])],
     panicked |-> FALSE]

(* the Application and its history after a call *)
AppCall(op, arg, r) ==
    /\ app' = r.self
    /\ app_hist' = [app_hist EXCEPT
                       !.calls = @ + 1,
                       !.last = [op |-> op, arg |-> arg, events |-> r.events]]
    /\ pc' = IF r.panicked THEN "panicked" ELSE pc

AppStartup ==
    /\ UNCHANGED <<render_vars, pipeline_vars, geometry_vars, input_vars>>
    /\ pc = "idle"
    /\ app_hist.calls < MaxCalls
    /\ LET r == Application_startup(app, app_hist.next_system)
       IN  /\ app' = r.self
           /\ app_hist' = [app_hist EXCEPT
                              !.calls = @ + 1,
                              !.next_system = @ + 2,
                              !.last = [op |-> "startup", arg |-> None,
                                        events |-> r.events]]
    /\ UNCHANGED pc

AppRegisterSystem ==
    /\ UNCHANGED <<render_vars, pipeline_vars, geometry_vars, input_vars>>
    /\ pc = "idle"
    /\ app_hist.calls < MaxCalls
    /\ \E name \in SystemNames :
         LET system == System(name, app_hist.next_system)
         IN  /\ app' = register_system(app, system)
             /\ app_hist' = [app_hist EXCEPT
                                !.calls = @ + 1,
                                !.next_system = @ + 1,
                                !.last = [op |-> "register_system",
                                          arg |-> Some(system),
                                          events |-> <<>>]]
    /\ UNCHANGED pc

AppShutdown ==
    /\ UNCHANGED <<render_vars, pipeline_vars, geometry_vars, input_vars>>
    /\ pc = "idle"
    /\ app_hist.calls < MaxCalls
    /\ AppCall("shutdown", None, Application_shutdown(app))

AppUpdate ==
    /\ UNCHANGED <<render_vars, pipeline_vars, geometry_vars, input_vars>>
    /\ pc = "idle"
    /\ app_hist.calls < MaxCalls
    /\ AppCall("update", None, Application_update(app))

AppNext ==
    \/ AppStartup
    \/ AppRegisterSystem
    \/ AppShutdown
    \/ AppUpdate

(* a client of a new application *)
AppInit ==
    /\ pc = "idle"
    /\ NoRender
    /\ NoSystems
    /\ NoGeometry
    /\ NoApplication
    /\ NoInput

AppSpec == AppInit /\ [][AppNext]_vars

----------------------------------------------------------------------------
(* The InputManager *)

MaxFrames == 2

(* winit VirtualKeyCode: the keys the match names and two others *)
VirtualKeyCodes == {"W", "A", "S", "D", "Z", "Q", "Escape"}

(* winit ModifiersState *)
ModifiersStates == [shift : BOOLEAN, alt : BOOLEAN]

(* Manager::update of the InputManager *)
InputManager_update(self) == [self EXCEPT !.current_key_pressed = None]

(* InputManager::handle_modifier_change *)
handle_modifier_change(self, new_state) ==
    [self EXCEPT !.modifier_state = new_state]

(* Variant: only the keys the match names are stored. *)
handle_key_input_named_only(self, key_pressed) ==
    IF key_pressed = None
    THEN [self |-> self, logged |-> None, panicked |-> TRUE]
    ELSE LET key == unwrap(key_pressed)
         IN  IF key \in {"W", "A", "S", "D", "Z"}
             THEN [self |-> [self EXCEPT !.current_key_pressed = key_pressed],
                   logged |-> Some(key), panicked |-> FALSE]
             ELSE [self |-> self, logged |-> None, panicked |-> FALSE]

(* InputManager::handle_key_input: key_pressed.unwrap() panics on None;    *)
(* logged is the key the match logs.                                       *)
handle_key_input(self, key_pressed) ==
    IF key_pressed = None
    THEN [self |-> self, logged |-> None, panicked |-> TRUE]
    ELSE LET key == unwrap(key_pressed)
         IN  [self |-> [self EXCEPT !.current_key_pressed = key_pressed],
              logged |-> IF key \in {"W", "A", "S", "D", "Z"}
                         THEN Some(key) ELSE None,
              panicked |-> FALSE]

(* the end of a frame *)
InputUpdate ==
    /\ UNCHANGED <<render_vars, pipeline_vars, geometry_vars,
                   application_vars>>
    /\ pc = "idle"
    /\ input_hist.frame < MaxFrames
    /\ input_manager' = InputManager_update(input_manager)
    /\ input_hist' = [input_hist EXCEPT
                         !.frame = @ + 1,
                         !.tick = 1 - @,
                         !.last = [op |-> "update", arg |-> None,
                                   logged |-> None]]
    /\ UNCHANGED pc

(* the window reports a change of the modifiers *)
InputModifierChange ==
    /\ UNCHANGED <<render_vars, pipeline_vars, geometry_vars,
                   application_vars>>
    /\ pc = "idle"
    /\ \E new_state \in {None} \cup {Some(m) : m \in ModifiersStates} :
         /\ input_manager' = handle_modifier_change(input_manager, new_state)
         /\ input_hist' = [input_hist EXCEPT
                              !.tick = 1 - @,
                              !.last = [op |-> "handle_modifier_change",
                                        arg |-> new_state, logged |-> None]]
    /\ UNCHANGED pc

(* the window reports a keyboard input *)
InputKey ==
    /\ UNCHANGED <<render_vars, pipeline_vars, geometry_vars,
                   application_vars>>
    /\ pc = "idle"
    /\ \E key_pressed \in {None} \cup {Some(k) : k \in VirtualKeyCodes} :
         LET r == handle_key_input(input_manager, key_pressed)
         IN  /\ input_manager' = r.self
             /\ pc' = IF r.panicked THEN "panicked" ELSE pc
             /\ input_hist' = [input_hist EXCEPT
                                  !.tick = 1 - @,
                                  !.received =
                                      IF r.panicked THEN @
                                      ELSE Some(input_hist.frame),
                                  !.last = [op |-> "handle_key_input",
                                            arg |-> key_pressed,
                                            logged |-> r.logged]]

InputNext ==
    \/ InputUpdate
    \/ InputModifierChange
    \/ InputKey

(* the window events on a new input manager *)
InputInit ==
    /\ pc = "idle"
    /\ NoRender
    /\ NoSystems
    /\ NoGeometry
    /\ NoApplication
    /\ NoInput

InputSpec == InputInit /\ [][InputNext]_vars

----------------------------------------------------------------------------
(* Properties *)

Started == is_some(rm.device)
InCall == pc \notin {"idle", "panicked"}

(* C1: over successful draw calls, as many completion futures are produced *)
(* as calls succeeded; the future call k produced is what call k stored    *)
(* and what call k+1 took and joined in its submission; and a stored       *)
(* token is only ever replaced by taking it into a submission that joins   *)
(* it.                                                                     *)
C1_FuturesChained ==
    /\ [](/\ (pc = "idle" => hist.produced = hist.succeeded)
          /\ (pc = "idle" /\ hist.last_result = "Ok" =>
                 rm.previous_frame_end = Some(FenceSignalFuture(draws)))
          /\ (pc = "flushed" /\ hist.last_result = "Ok" =>
                 call.joined = Some(FenceSignalFuture(draws - 1)))
          /\ (pc = "flushed" /\ unwrap(future).tag = "Ok" =>
                 /\ unwrap(future).future = FenceSignalFuture(draws)
                 /\ hist.produced = hist.succeeded + 1))
    /\ [][(is_some(rm.previous_frame_end)
            /\ rm'.previous_frame_end # rm.previous_frame_end)
          => (/\ rm'.previous_frame_end = None
              /\ call'.joined = rm.previous_frame_end)]_vars

C1_Witness ==
    /\ pc = "flushed"
    /\ draws = 3
    /\ hist.succeeded = 2
    /\ hist.last_result = "Ok"
    /\ unwrap(future).tag = "Ok"
    /\ call.joined = Some(FenceSignalFuture(2))

(* C2: after startup, whenever no draw call is running, a token is stored  *)
(* in previous_frame_end; a finished draw call took the token once and     *)
(* stored a token once, whatever its flush returned; between the take and  *)
(* the store nothing is stored.                                            *)
C2_OneTokenBetweenCalls ==
    /\ (pc = "idle" /\ Started) => is_some(rm.previous_frame_end)
    /\ (pc = "idle" /\ draws > 0) => (call.taken = 1 /\ call.stored = 1)
    /\ pc = "flushed" =>
          (rm.previous_frame_end = None /\ call.taken = 1 /\ call.stored = 0)
    /\ (InCall /\ pc # "flushed") =>
          (is_some(rm.previous_frame_end) /\ call.taken = 0 /\ call.stored = 0)

C2_Witness ==
    /\ pc = "idle"
    /\ draws = 3
    /\ hist.last_result = "Other"
    /\ call.taken = 1
    /\ call.stored = 1
    /\ rm.previous_frame_end = Some(now)

(* C3: a draw call makes at most two acquisitions and at most one          *)
(* recreation attempt out of acquire_swapchain_image.                      *)
C3_AtMostOneRetry ==
    /\ call.acquisitions <= 2
    /\ call.acquire_recreations <= 1

(* C4: every draw call in which a recreation attempt ended with            *)
(* unsupported dimensions comes to an end (it returns; the weaker reading, *)
(* in which a panic also counts as an end, is the one stated).             *)
C4_DrawTerminates ==
    (InCall /\ call.last_recreate = "UnsupportedDimensions") ~> ~InCall

(* C5: a recreate_swapchain call that ends with UnsupportedDimensions      *)
(* leaves swapchain, framebuffers, viewport and the recreate_swapchain     *)
(* flag as they were.                                                      *)
C5_UnsupportedIsNoOp ==
    [][(pc = "recreate" /\ pc' # "recreate"
          /\ call'.last_recreate = "UnsupportedDimensions")
       => (/\ rm'.swapchain = rm.swapchain
           /\ rm'.framebuffers = rm.framebuffers
           /\ rm'.viewport = rm.viewport
           /\ rm'.recreate_swapchain = rm.recreate_swapchain)]_vars

C5_Witness ==
    /\ pc = "acquire"
    /\ call.last_recreate = "UnsupportedDimensions"
    /\ call.recreations >= 2
    /\ rm.recreate_swapchain

(* C6: from startup on, the stored framebuffers are one per image of the   *)
(* stored swapchain, the i-th framebuffer wrapping the i-th image; and     *)
(* swapchain and framebuffers are only ever replaced in the same step.     *)
C6_FramebuffersMatchSwapchain ==
    /\ [](Started =>
            LET sc == unwrap(rm.swapchain)
                fbs == unwrap(rm.framebuffers)
            IN  /\ Len(fbs) = sc.num_images
                /\ \A i \in 1..Len(fbs) :
                      fbs[i].image = SwapchainImages(sc)[i])
    /\ [][(rm'.swapchain # rm.swapchain) <=>
             (rm'.framebuffers # rm.framebuffers)]_vars

C6_Witness ==
    /\ pc = "record"
    /\ call.last_recreate = "Ok"
    /\ unwrap(rm.swapchain).id = 3
    /\ unwrap(rm.swapchain).num_images = 3
    /\ Len(unwrap(rm.framebuffers)) = 3
    /\ unwrap(rm.framebuffers)[3].image.swapchain = 3

(* C7: in every state after startup the stored viewport's dimensions are   *)
(* the image dimensions of the stored swapchain.                           *)
C7_ViewportMatchesSwapchain ==
    Started =>
        unwrap(rm.viewport).dimensions =
            <<AsF32(unwrap(rm.swapchain).dimensions[1]),
              AsF32(unwrap(rm.swapchain).dimensions[2])>>

(* C8: the recreate_swapchain flag goes from true to false only in a       *)
(* recreate_swapchain call whose swapchain creation succeeded, and when    *)
(* that call returns the swapchain has been replaced.                      *)
C8_FlagClearedOnlyBySuccess ==
    [][(rm.recreate_swapchain /\ ~rm'.recreate_swapchain)
       => (/\ pc = "recreate"
           /\ call'.last_recreate = "Ok"
           /\ (pc' # "panicked" => rm'.swapchain # rm.swapchain))]_vars

C8_Witness ==
    /\ pc = "acquire"
    /\ hist.last_result = "OutOfDate"
    /\ call.recreations = 2
    /\ call.last_recreate = "Ok"
    /\ ~rm.recreate_swapchain

(* C9: in a draw call whose acquisition was flagged suboptimal, the        *)
(* swapchain stored while the frame is recorded and submitted is the one   *)
(* the image was acquired from.                                            *)
C9_SuboptimalDefersRecreation ==
    (pc \in {"record", "submit", "flushed"} /\ suboptimal)
        => unwrap(rm.swapchain).id = call.acquired_from

(* C10: a draw call whose flush returned OutOfDate returns with the flag   *)
(* set and the signalled placeholder stored, and the submission of the     *)
(* next call joins that placeholder.                                       *)
C10_OutOfDateFlush ==
    /\ (pc = "idle" /\ hist.last_result = "OutOfDate") =>
          (rm.recreate_swapchain /\ rm.previous_frame_end = Some(now))
    /\ (pc = "flushed" /\ hist.last_result = "OutOfDate") =>
          call.joined = Some(now)

C10_Witness ==
    /\ pc = "flushed"
    /\ hist.last_result = "OutOfDate"
    /\ hist.succeeded = 1
    /\ call.joined = Some(now)

(* C11: a draw call that follows a call whose flush returned OutOfDate     *)
(* has attempted a swapchain recreation by the time it submits.            *)
C11_DeferredRecreation ==
    (pc \in {"submit", "flushed"} /\ hist.last_result = "OutOfDate")
        => call.recreations >= 1

(* C12: a flush error other than OutOfDate drops the frame: the call       *)
(* returns, the signalled placeholder is stored, and flag, swapchain,      *)
(* framebuffers and viewport are as before.                                *)
C12_OtherFlushDropsFrame ==
    [][(pc = "flushed" /\ unwrap(future).tag = "Other" /\ pc' # "flushed")
       => (/\ pc' = "idle"
           /\ rm'.previous_frame_end = Some(now)
           /\ rm'.recreate_swapchain = rm.recreate_swapchain
           /\ rm'.swapchain = rm.swapchain
           /\ rm'.framebuffers = rm.framebuffers
           /\ rm'.viewport = rm.viewport)]_vars

C12_Witness ==
    /\ pc = "idle"
    /\ draws = 2
    /\ hist.last_result = "Other"
    /\ rm.recreate_swapchain
    /\ call.acquisitions = 1
    /\ rm.previous_frame_end = Some(now)

(* C13 as stated: a flush error other than OutOfDate ends the process, the *)
(* draw call does not return.                                              *)
C13_OtherFlushFatal ==
    [][(pc = "flushed" /\ unwrap(future).tag = "Other" /\ pc' # "flushed")
       => pc' = "panicked"]_vars

(* C13 amended: a flush error other than OutOfDate is not fatal, the draw  *)
(* call returns to its caller, which can make the next draw call.          *)
C13_OtherFlushNotFatal ==
    /\ [][(pc = "flushed" /\ unwrap(future).tag = "Other" /\ pc' # "flushed")
          => (pc' = "idle" /\ hist'.last_result = "Other")]_vars
    /\ []((pc = "idle" /\ hist.last_result = "Other" /\ draws < MaxDraws)
            => ENABLED draw_prep)

C13_Witness ==
    /\ pc = "flushed"
    /\ hist.last_result = "Other"
    /\ hist.succeeded = 0
    /\ unwrap(future).tag = "Ok"

(* C14: an acquisition error other than OutOfDate and a swapchain creation *)
(* error other than UnsupportedDimensions end the process in the step that *)
(* met them, with the RenderManager as it was, and nothing of that frame   *)
(* recorded, submitted or presented.                                       *)
C14_FatalFailures ==
    /\ [][(pc = "acquire" /\ call'.last_acquire = "Other")
          => (pc' = "panicked" /\ rm' = rm)]_vars
    /\ [][(pc = "recreate" /\ call'.last_recreate = "Other"
             /\ pc' # "recreate")
          => (pc' = "panicked" /\ rm' = rm)]_vars
    /\ []((pc = "panicked"
             /\ (call.last_acquire = "Other" \/ call.last_recreate = "Other"))
            => (call.taken = 0 /\ call.presented_to = 0
                /\ call.target = None))

C14_Witness ==
    /\ pc = "panicked"
    /\ call.last_recreate = "Other"
    /\ call.acquire_recreations = 2
    /\ rm.recreate_swapchain

Published == sys.published
LastPublished == Published[Len(Published)]
ComboHeld == modifiers.shift /\ modifiers.alt /\ "Z" \in key_input
RanSystem(name) == sys'.tick # sys.tick /\ sys'.last_run = name

(* C15: the pipeline the cache returns for the terrain draw system is the  *)
(* one most recently passed to set_pipeline_for_system; the pipeline a     *)
(* TerrainDrawSystem run binds is that one, and every command buffer was   *)
(* encoded with a pipeline that was published.                             *)
C15_PipelineRoundTrip ==
    /\ Published # <<>> =>
          get_pipeline_for_system(scene_state, TerrainKey) = Some(LastPublished)
    /\ (Published # <<>> /\ sys.last_run = "TerrainDrawSystem") =>
          sys.bound = Some(LastPublished)
    /\ \A i \in 1..Len(buffers) :
          \E j \in 1..Len(Published) : buffers[i].pipeline = Published[j]

C15_Witness ==
    /\ pc = "idle"
    /\ sys.last_run = "TerrainDrawSystem"
    /\ Len(Published) = 2
    /\ LastPublished.topology = "LineStrip"
    /\ sys.bound = Some(LastPublished)
    /\ Len(buffers) = 2
    /\ buffers[1].pipeline = Published[1]
    /\ buffers[2].pipeline = Published[2]

(* C16: while no pipeline was ever set for the terrain draw system the     *)
(* lookup finds none; a TerrainDrawSystem run, and a wireframe system run  *)
(* with the key combination held, then panic at the lookup, pushing no     *)
(* command buffer and leaving the cache as it was.                         *)
C16_NotFoundFails ==
    /\ [](Published = <<>> =>
            get_pipeline_for_system(scene_state, TerrainKey) = None)
    /\ [][(/\ get_pipeline_for_system(scene_state, TerrainKey) = None
           /\ \/ RanSystem("TerrainDrawSystem")
              \/ (RanSystem("TerrainAssemblyStateModifierSystem") /\ ComboHeld))
          => (/\ pc' = "panicked"
              /\ buffers' = buffers
              /\ scene_state' = scene_state
              /\ sys'.published = sys.published)]_vars

C16_Witness ==
    /\ pc = "panicked"
    /\ Published = <<>>
    /\ sys.last_run = "TerrainDrawSystem"
    /\ Len(terrains) = 2
    /\ is_some(terrains[1].geometry.index_buffer)
    /\ buffers = <<>>

(* C17: each toggle publishes LineStrip when the registered pipeline is    *)
(* TriangleList and TriangleList when it is LineStrip, so the topology     *)
(* after two toggles is the one before them; a toggle on a pipeline of     *)
(* another topology panics and publishes nothing.                          *)
C17_ToggleInvolution ==
    /\ [](\A i \in 1..(Len(Published) - 1) :
            \/ /\ Published[i].topology = "TriangleList"
               /\ Published[i + 1].topology = "LineStrip"
            \/ /\ Published[i].topology = "LineStrip"
               /\ Published[i + 1].topology = "TriangleList")
    /\ [](\A i \in 1..(Len(Published) - 2) :
            Published[i + 2].topology = Published[i].topology)
    /\ [][(/\ RanSystem("TerrainAssemblyStateModifierSystem")
           /\ ComboHeld
           /\ is_some(get_pipeline_for_system(scene_state, TerrainKey))
           /\ unwrap(get_pipeline_for_system(scene_state, TerrainKey)).topology
                 \notin {"TriangleList", "LineStrip"})
          => (/\ pc' = "panicked"
              /\ scene_state' = scene_state
              /\ sys'.published = sys.published)]_vars

C17_Witness ==
    /\ pc = "idle"
    /\ Len(Published) = 3
    /\ Published[1].topology = "LineStrip"
    /\ Published[2].topology = "TriangleList"
    /\ Published[3].topology = "LineStrip"
    /\ get_pipeline_for_system(scene_state, TerrainKey) = Some(Published[3])

Ran == geo'.runs # geo.runs

(* C18: a run of the geometry initializer on a geometry an earlier run     *)
(* went through leaves its vertex sequence, its index sequence and its     *)
(* initialized flag as that run left them.                                 *)
C18_InitializerIdempotentOnData ==
    [][(Ran /\ geo.runs >= 1) =>
          /\ Len(geometries') = Len(geometries)
          /\ \A i \in 1..Len(geometries) :
                /\ geometries'[i].vertices = geometries[i].vertices
                /\ geometries'[i].indices = geometries[i].indices
                /\ geometries'[i].initialized = geometries[i].initialized]_vars

C18_Witness ==
    /\ pc = "idle"
    /\ geo.runs = 2
    /\ Len(geometries) = 2
    /\ geometries[1].geometry_type = "Box"
    /\ Len(geometries[1].vertices) = 8
    /\ Len(geometries[1].indices) = 36
    /\ geometries[1].initialized
    /\ geometries[2].geometry_type = "Triangle"
    /\ geometries[2].indices = <<0, 1, 2, 0>>

(* C19: each geometry is uploaded exactly once over any sequence of        *)
(* initializer runs: after the runs made so far, a geometry that is        *)
(* initialized went through one uploading initialize call, and one that    *)
(* is not through none.                                                    *)
C19_UploadedExactlyOnce ==
    pc = "idle" =>
        \A i \in 1..Len(geometries) :
            geo.initializes[i] = IF geometries[i].initialized THEN 1 ELSE 0

(* C20: the vertex-buffer and index-buffer handles of a geometry's data    *)
(* are both present when initialized is true and both absent when it is    *)
(* false, for the cube and for every geometry of the storage, also in the  *)
(* state a failed upload leaves.                                           *)
HandlesIffInitialized(data) ==
    /\ data.initialized =>
          (is_some(data.vertex_buffer) /\ is_some(data.index_buffer))
    /\ ~data.initialized =>
          (data.vertex_buffer = None /\ data.index_buffer = None)

C20_HandlesIffInitialized ==
    /\ is_some(cube) => HandlesIffInitialized(unwrap(cube).data)
    /\ \A i \in 1..Len(geometries) : HandlesIffInitialized(geometries[i])

C20_Witness ==
    /\ is_some(cube)
    /\ geo.cube_initializes = 2
    /\ pc = "panicked"
    /\ unwrap(cube).data.initialized
    /\ unwrap(unwrap(cube).data.index_buffer).content = unwrap(cube).data.indices

(* the positions of the steps of the current call that are calls of op *)
Ops(op) == {k \in 1..Len(call.steps) : call.steps[k].op = op}
DrawSteps == Ops("draw_indexed")
BuilderCreated == Ops("AutoCommandBufferBuilder::primary") # {}

(* C21: every entity an indexed draw was encoded for has a renderable the  *)
(* initializer pass of the call marked initialized and a geometry that is  *)
(* initialized; the initializer pass is the first step of the call; no     *)
(* draw is encoded for an entity whose geometry is not initialized.        *)
C21_DrawnEntitiesInitialized ==
    /\ call.steps # <<>> => Ops("scene_prep_system.run") = {1}
    /\ \A k \in DrawSteps :
          LET e == world.entities[call.steps[k].entity]
          IN  /\ k > 1
              /\ HasBoth(e)
              /\ unwrap(e.renderable).initialized
              /\ unwrap(e.renderable).geometry.initialized
    /\ \A i \in 1..Len(world.entities) :
          (/\ is_some(world.entities[i].renderable)
           /\ ~unwrap(world.entities[i].renderable).geometry.initialized)
          => \A k \in DrawSteps : call.steps[k].entity # i

C21_Witness ==
    /\ pc = "panicked"
    /\ Len(world.entities) = 2
    /\ Cardinality(DrawSteps) = 1
    /\ \E k \in DrawSteps : call.steps[k].entity = 1
    /\ unwrap(world.entities[1].renderable).initialized
    /\ unwrap(world.entities[2].renderable).initialized
    /\ ~unwrap(world.entities[2].renderable).geometry.initialized

(* C22: once the builder of a draw call was created, exactly one indexed   *)
(* draw is encoded for every entity with a renderable and a transform,     *)
(* with the length of the entity's index sequence as index count, and      *)
(* none for any other entity.                                              *)
C22_OneDrawPerEntity ==
    BuilderCreated =>
        \A i \in 1..Len(world.entities) :
            LET of_entity == {k \in DrawSteps : call.steps[k].entity = i}
            IN  IF HasBoth(world.entities[i])
                THEN /\ Cardinality(of_entity) = 1
                     /\ \A k \in of_entity :
                          call.steps[k].arg =
                              Len(unwrap(world.entities[i].renderable).geometry.indices)
                ELSE of_entity = {}

(* C23: no step of a draw call changes an entity's transform or the        *)
(* vertex and index sequences of an entity's geometry.                     *)
C23_DrawKeepsSceneData ==
    [][/\ Len(world'.entities) = Len(world.entities)
       /\ \A i \in 1..Len(world.entities) :
            /\ world'.entities[i].transform = world.entities[i].transform
            /\ is_some(world'.entities[i].renderable)
                 = is_some(world.entities[i].renderable)
            /\ is_some(world.entities[i].renderable) =>
                 /\ unwrap(world'.entities[i].renderable).geometry.vertices
                      = unwrap(world.entities[i].renderable).geometry.vertices
                 /\ unwrap(world'.entities[i].renderable).geometry.indices
                      = unwrap(world.entities[i].renderable).geometry.indices]_vars

C23_Witness ==
    /\ pc = "idle"
    /\ hist.last_result = "OutOfDate"
    /\ call.recreations >= 1
    /\ Len(world.entities) = 2
    /\ Cardinality(DrawSteps) = 2
    /\ Len(world.cameras) = 1
    /\ world.cameras[1].aspect = window
    /\ Len(unwrap(world.entities[1].renderable).geometry.vertices) = 8

(* the place of a step in the order of a draw call *)
Rank(op) ==
    CASE op = "scene_prep_system.run" -> 0
      [] op = "acquire_next_image" -> 1
      [] op = "AutoCommandBufferBuilder::primary" -> 2
      [] op = "begin_render_pass" -> 3
      [] op \in {"set_viewport", "bind_pipeline_graphics", "uniform_buffer.next",
                 "bind_vertex_buffers", "bind_index_buffer", "draw_indexed"} -> 4
      [] op = "end_render_pass" -> 5
      [] op = "build" -> 6
      [] op = "join" -> 7
      [] op = "then_execute" -> 8
      [] op = "then_swapchain_present" -> 9
      [] op = "then_signal_fence_and_flush" -> 10

OnceOps ==
    {"acquire_next_image", "begin_render_pass", "end_render_pass", "build",
     "join", "then_execute", "then_swapchain_present",
     "then_signal_fence_and_flush"}

(* C24: the steps of a draw call are in the order acquisition of the       *)
(* image, begin of the render pass, the draw encodings, end of the render  *)
(* pass, build, join, execute, present, signal fence; none of these but    *)
(* the encodings occurs twice, and each has occurred once when the         *)
(* submission has been flushed.                                            *)
C24_StepOrder ==
    /\ \A j, k \in 1..Len(call.steps) :
          j < k => Rank(call.steps[j].op) <= Rank(call.steps[k].op)
    /\ \A op \in OnceOps : Cardinality(Ops(op)) <= 1
    /\ pc = "flushed" => \A op \in OnceOps : Cardinality(Ops(op)) = 1

C24_Witness ==
    /\ pc = "flushed"
    /\ Cardinality(DrawSteps) = 2
    /\ call.acquisitions = 2
    /\ call.steps[Len(call.steps)].op = "then_signal_fence_and_flush"

(* C25: no swapchain is recreated in a draw call once the command-buffer   *)
(* builder of the call was created: the swapchain and the framebuffers     *)
(* stay the same from then on up to the flush of the submission.           *)
C25_NoRecreationWhileBuilding ==
    /\ [](pc = "recreate" => ~BuilderCreated)
    /\ [][(BuilderCreated /\ pc \in {"record", "recreate", "submit"})
          => (/\ rm'.swapchain = rm.swapchain
              /\ rm'.framebuffers = rm.framebuffers)]_vars

C25_Witness ==
    /\ pc = "flushed"
    /\ BuilderCreated
    /\ call.acquire_recreations >= 1
    /\ call.replaced_after_acquire

(* C26: the framebuffer a draw call renders into and the swapchain it      *)
(* presents to are of the swapchain the image index was acquired from,     *)
(* and the image index is smaller than the number of framebuffers.         *)
C26_ImageOfCurrentSwapchain ==
    /\ is_some(call.target) =>
          unwrap(call.target).image.swapchain = call.acquired_from
    /\ call.presented_to # 0 => call.presented_to = call.acquired_from
    /\ pc = "record" => image_num < Len(unwrap(rm.framebuffers))

(* C27: every indexed draw is preceded, for its entity, by the binding of  *)
(* the entity's vertex buffer, of its index buffer and of a descriptor     *)
(* set holding the uniform slot allocated for the entity in this call.     *)
C27_DrawsBindBuffersAndUniform ==
    \A k \in DrawSteps :
        LET e == call.steps[k].entity
            geometry == unwrap(world.entities[e].renderable).geometry
            before(op) == {j \in Ops(op) : j < k /\ call.steps[j].entity = e}
        IN  /\ \E j \in before("bind_vertex_buffers") :
                  call.steps[j].arg = unwrap(geometry.vertex_buffer)
            /\ \E j \in before("bind_index_buffer") :
                  call.steps[j].arg = unwrap(geometry.index_buffer)
            /\ before("uniform_buffer.next") # {}
            /\ before("bind_descriptor_sets") # {}

(* C28: the uniform of every draw of a frame is built from the view and    *)
(* the perspective of the last camera of the storage, from the identity    *)
(* for both when there is no camera, and from the entity's rotation and    *)
(* translation.                                                            *)
C28_LastCameraWins ==
    \A k \in Ops("uniform_buffer.next") :
        LET transform == unwrap(world.entities[call.steps[k].entity].transform)
            n == Len(world.cameras)
            view == IF n = 0 THEN Identity ELSE get_view(world.cameras[n])
            perspective == IF n = 0 THEN Identity
                           ELSE get_perspective(world.cameras[n])
        IN  call.steps[k].arg.data =
                Mul(Mul(perspective, view),
                    Mul(transform.rotation,
                        from_translation(transform.global_position)))

C28_Witness ==
    /\ pc = "submit"
    /\ Len(world.cameras) = 2
    /\ world.cameras[1].id = 2
    /\ world.cameras[2].id = 1
    /\ Cardinality(DrawSteps) = 2
    /\ \A k \in Ops("uniform_buffer.next") :
          call.steps[k].arg.data[1].m = "perspective"

(* C29: a run of the wireframe system with Shift, Alt or Z missing leaves  *)
(* the pipeline cache as it is and does not fail; a run with all three     *)
(* that finds a pipeline of a defined topology registers one new pipeline. *)
C29_ToggleOnlyOnCombination ==
    /\ [][(RanSystem("TerrainAssemblyStateModifierSystem") /\ ~ComboHeld)
          => (/\ scene_state' = scene_state
              /\ sys'.published = sys.published
              /\ next_pipeline' = next_pipeline
              /\ pc' = pc)]_vars
    /\ [][(RanSystem("TerrainAssemblyStateModifierSystem") /\ ComboHeld
           /\ pc' # "panicked")
          => (/\ Len(sys'.published) = Len(sys.published) + 1
              /\ next_pipeline' = next_pipeline + 1
              /\ get_pipeline_for_system(scene_state', TerrainKey)
                   = Some(sys'.published[Len(sys'.published)])
              /\ get_pipeline_for_system(scene_state', TerrainKey)
                   # get_pipeline_for_system(scene_state, TerrainKey))]_vars

C29_Witness ==
    /\ pc = "idle"
    /\ sys.last_run = "TerrainAssemblyStateModifierSystem"
    /\ is_some(sys.seen)
    /\ unwrap(sys.seen).modifiers.shift
    /\ ~unwrap(sys.seen).modifiers.alt
    /\ "Z" \in unwrap(sys.seen).input
    /\ Len(Published) = 2

(* C30: a pipeline published by the toggle differs from the one it         *)
(* replaces in its identity and its topology only, and so from the         *)
(* initial pipeline of the terrain draw system.                            *)
SameButTopology(p, q) == [p EXCEPT !.id = q.id, !.topology = q.topology] = q

C30_ToggleKeepsPipelineState ==
    /\ \A i \in 2..Len(Published) :
          /\ SameButTopology(Published[i - 1], Published[i])
          /\ Published[i].topology # Published[i - 1].topology
          /\ Published[i].id # Published[i - 1].id
    /\ \A i \in 1..Len(Published) :
          SameButTopology(
              create_graphics_pipeline(1, scene_state.render_passes[1]),
              Published[i])

C30_Witness ==
    /\ Len(Published) = 3
    /\ Published[1] = create_graphics_pipeline(1, scene_state.render_passes[1])
    /\ Published[2].topology = "LineStrip"
    /\ Published[2].cull_mode = "Back"
    /\ Published[3].topology = "TriangleList"
    /\ Published[3].subpass = Published[1].subpass

(* C31: from the initial terrain pipeline on, through any runs of the       *)
(* wireframe system, every published pipeline and the registered one have  *)
(* topology TriangleList or LineStrip, the match on the registered         *)
(* topology never takes its catch-all arm, and a run with the combination  *)
(* held that finds a pipeline does not fail.                               *)
C31_TopologyStaysInToggleDomain ==
    /\ [](\A i \in 1..Len(Published) :
            Published[i].topology \in {"TriangleList", "LineStrip"})
    /\ [](LET found == get_pipeline_for_system(scene_state, TerrainKey)
          IN  is_some(found) =>
                 /\ unwrap(found).topology \in {"TriangleList", "LineStrip"}
                 /\ toggle_topology(unwrap(found).topology) # None)
    /\ [][(/\ RanSystem("TerrainAssemblyStateModifierSystem")
           /\ ComboHeld
           /\ is_some(get_pipeline_for_system(scene_state, TerrainKey)))
          => pc' # "panicked"]_vars

C31_Witness ==
    /\ pc = "idle"
    /\ sys.last_run = "TerrainAssemblyStateModifierSystem"
    /\ Len(Published) = 4
    /\ Published[1].topology = "TriangleList"
    /\ Published[4].topology = "LineStrip"
    /\ get_pipeline_for_system(scene_state, TerrainKey) = Some(Published[4])

(* C33: after a run of the geometry initializer, the index sequence of     *)
(* every geometry has a length that is a multiple of 3 and holds only      *)
(* indices smaller than the number of vertices of the geometry.            *)
C33_IndicesFormTriangles ==
    (geo.runs >= 1 /\ pc = "idle") =>
        \A i \in 1..Len(geometries) :
            /\ Len(geometries[i].indices) % 3 = 0
            /\ \A j \in 1..Len(geometries[i].indices) :
                  geometries[i].indices[j] < Len(geometries[i].vertices)

(* the Vulkan resources of the RenderManager that draw reads *)
Resources ==
    {"device", "queue", "swapchain", "render_pass", "pipeline",
     "framebuffers", "viewport"}

(* C32: before startup the RenderManager holds no resource and no frame    *)
(* token; startup stores every resource and a signalled                    *)
(* previous_frame_end with recreate_swapchain false; a draw call before    *)
(* startup panics and submits nothing; after startup every resource stays  *)
(* present, and every draw call begins with a frame token present.         *)
C32_ResourcesPresentAfterStartup ==
    /\ [](~Started =>
            /\ \A f \in Resources : rm[f] = None
            /\ rm.previous_frame_end = None
            /\ ~rm.recreate_swapchain
            /\ call = NoCall
            /\ hist = NoHist
            /\ draws = 0)
    /\ [][(~Started /\ rm' # rm)
          => (/\ \A f \in Resources : is_some(rm'[f])
              /\ rm'.previous_frame_end = Some(now)
              /\ ~rm'.recreate_swapchain)]_vars
    /\ [][(~Started /\ pc' # pc)
          => (pc' = "panicked" /\ rm' = rm /\ call' = call
              /\ hist' = hist)]_vars
    /\ [](Started => \A f \in Resources : is_some(rm[f]))
    /\ []((Started /\ pc \in {"idle", "acquire"})
            => is_some(rm.previous_frame_end))

C32_Witness ==
    /\ Started
    /\ pc = "acquire"
    /\ draws = 2
    /\ hist # NoHist
    /\ is_some(rm.previous_frame_end)
    /\ rm.previous_frame_end # Some(now)
    /\ unwrap(rm.swapchain).id = 2

AppCalled(op) == app_hist'.calls # app_hist.calls /\ app_hist'.last.op = op

(* C34: a shutdown of the Application does not fail, calls shutdown on     *)
(* every registered system exactly once and leaves the list of systems     *)
(* empty.                                                                  *)
C34_ShutdownReachesEverySystem ==
    [][AppCalled("shutdown")
       => (/\ pc' # "panicked"
           /\ app'.systems = <<>>
           /\ \A i \in 1..Len(app.systems) :
                 Cardinality({k \in 1..Len(app_hist'.last.events) :
                     app_hist'.last.events[k]
                        = Event("shutdown", app.systems[i])}) = 1)]_vars

(* C35: startup calls startup on a new physics system and then on a new    *)
(* render system, then registers the two in that order behind the systems  *)
(* already registered; register_system appends its argument and keeps the  *)
(* rest of the list; update leaves the list as it is and calls update      *)
(* once on every registered system, in the order of the list.              *)
C35_StartupRegisterUpdateOrder ==
    /\ [][AppCalled("startup")
          => (\E physics, render \in
                  {System(name, id) : name \in SystemNames,
                                      id \in 1..(2 * MaxCalls)} :
                /\ physics.name = "PhysicsSystem"
                /\ render.name = "RenderSystem"
                /\ physics # render
                /\ \A i \in 1..Len(app.systems) :
                      app.systems[i] \notin {physics, render}
                /\ app_hist'.last.events
                      = <<Event("startup", physics), Event("startup", render),
                          Event("register_system", physics),
                          Event("register_system", render)>>
                /\ app'.systems = app.systems \o <<physics, render>>
                /\ pc' = pc)]_vars
    /\ [][AppCalled("register_system")
          => (/\ app'.systems
                    = app.systems \o <<unwrap(app_hist'.last.arg)>>
              /\ pc' = pc)]_vars
    /\ [][AppCalled("update")
          => (/\ app' = app
              /\ pc' = pc
              /\ Len(app_hist'.last.events) = Len(app.systems)
              /\ \A i \in 1..Len(app.systems) :
                    app_hist'.last.events[i]
                       = Event("update", app.systems[i]))]_vars

C35_Witness ==
    /\ pc = "idle"
    /\ app_hist.last.op = "update"
    /\ Len(app.systems) = 3
    /\ app.systems[1].name = "Application"
    /\ app.systems[2].name = "PhysicsSystem"
    /\ app.systems[3].name = "RenderSystem"
    /\ Len(app_hist.last.events) = 3

InputCalled(op) ==
    input_hist'.tick # input_hist.tick /\ input_hist'.last.op = op

(* C36: update clears the pressed key and keeps the modifier state;        *)
(* handle_key_input with a key stores that key, whichever key it is, and   *)
(* keeps the modifier state; handle_modifier_change stores the new         *)
(* modifier state and keeps the pressed key; a stored key was received in  *)
(* the current frame.                                                      *)
C36_InputManagerFields ==
    /\ [][InputCalled("update")
          => (/\ input_manager'.current_key_pressed = None
              /\ input_manager'.modifier_state = input_manager.modifier_state
              /\ pc' = pc)]_vars
    /\ [][(InputCalled("handle_key_input")
           /\ is_some(input_hist'.last.arg))
          => (/\ input_manager'.current_key_pressed = input_hist'.last.arg
              /\ input_manager'.modifier_state = input_manager.modifier_state
              /\ pc' = pc)]_vars
    /\ [][InputCalled("handle_modifier_change")
          => (/\ input_manager'.modifier_state = input_hist'.last.arg
              /\ input_manager'.current_key_pressed
                    = input_manager.current_key_pressed
              /\ pc' = pc)]_vars
    /\ [](is_some(input_manager.current_key_pressed)
            => input_hist.received = Some(input_hist.frame))

C36_Witness ==
    /\ pc = "idle"
    /\ input_hist.last.op = "handle_key_input"
    /\ input_hist.frame = 1
    /\ input_manager.current_key_pressed = Some("Q")
    /\ input_manager.modifier_state = Some([shift |-> TRUE, alt |-> FALSE])
    /\ input_hist.last.logged = None

====
